---- MODULE Spec2Model ----
(***************************************************************************)
(* The NetDocuments synchronisation engine (src/src/netdocuments_sync.py): *)
(* the persisted sync-state file, one sync_documents invocation at a time  *)
(* stepping through its per-document loop, and the collaborators it calls  *)
(* (download, processing, knowledge-base upsert) as nondeterministic       *)
(* outcomes.                                                               *)
(***************************************************************************)
EXTENDS Integers, Sequences, FiniteSets

\* ------------------------------------------------------------- bounds
\* Longest document list handed to one sync_documents invocation.
MaxDocs == 2
\* Number of sync_documents invocations in one behaviour.
MaxRuns == 2
\* Largest remote "modified" timestamp.
MaxModified == 2

\* The most documents a search returns.
MaxFound == 3
\* Longest list in which one document occurs several times.
MaxBatch == 3

\* ------------------------------------------------------------- values
\* Document ids of the remote source; NoId is what doc_info.get("id") gives
\* for a record without id (None, or ""): falsy in Python.
DocIds == {"A", "B"}
NoId == ""
Ids == DocIds \cup {NoId}

\* File names of remote documents; "" is what doc_info.get("name", "") gives
\* for a record without name.
Names == {"a.PDF", "b.txt", "c.exe", ""}

\* "modified" of a record: 0 stands for the falsy values (the key missing,
\* None, ""), 1..MaxModified are timestamps in their order.
Modified == 0..MaxModified

DocRecords == [id : Ids, name : Names, modified : Modified]

\* The records the batches are made of: every well-formed record of a
\* supported type, one record of an unsupported type and one without id (a
\* record of either kind is skipped whatever its other fields are).
BatchRecords ==
    [id : DocIds, name : {"a.PDF"}, modified : Modified]
    \cup {[id |-> "A", name |-> "c.exe", modified |-> MaxModified],
          [id |-> NoId, name |-> "a.PDF", modified |-> MaxModified]}

DocLists == UNION {[1..n -> BatchRecords] : n \in 0..MaxDocs}

SUPPORTED_EXTENSIONS == {".pdf", ".docx", ".txt"}

\* Path(filename).suffix on the modelled names.
PathSuffix(filename) ==
    CASE filename = "a.PDF" -> ".PDF"
      [] filename = "b.txt" -> ".txt"
      [] filename = "c.exe" -> ".exe"
      [] OTHER -> ""

\* str.lower() on the modelled suffixes.
Lower(s) ==
    CASE s = ".PDF" -> ".pdf"
      [] OTHER -> s

NoEntries == [x \in {} |-> 0]

\* get_sync_state's default when the state file does not exist; last_sync 0
\* stands for None.
DefaultState ==
    [last_sync |-> 0, synced_documents |-> NoEntries, failed_documents |-> <<>>]

\* The state file: absent, or present with a complete JSON document, or
\* present but truncated (opened for writing, the dump not finished).
NoFile == [exists |-> FALSE, complete |-> FALSE, state |-> DefaultState]

NoResult ==
    [status |-> "none", success |-> FALSE, synced_count |-> 0,
     failed_count |-> 0, failed_documents |-> <<>>, total_processed |-> 0]

NoOutcome == [success |-> FALSE, error |-> ""]

\* The dictionary sync_recent_documents and sync_folder return from their
\* except branch (lines 169-174, 286-291): success False, an error message
\* and both counts zero.
ErrorReport == [NoResult EXCEPT !.status = "error_report"]

NoDiscovery == [status |-> "none", search |-> "none", found |-> <<>>, documents |-> <<>>]

NoLoss == [at |-> 0, documents |-> <<>>, log |-> <<>>]

NoChunks == [x \in {} |-> 0]

\* No call of process_document yet.
NoDownload == [result |-> "", save_path |-> ""]

NoDocuments == [status |-> "none", documents |-> <<>>]

\* The second invocation before it is called.
NoOther ==
    [pc |-> "idle", documents |-> <<>>, idx |-> 1, sync_state |-> DefaultState,
     failed_docs |-> <<>>, synced |-> {}, entry_file |-> NoFile]

VARIABLES
    file,               \* netdocuments_sync_state.json on disk
    rag_pipeline,       \* constructor argument: TRUE when a pipeline is given
    now,                \* the wall clock (datetime.now()), one tick per invocation
    pc,                 \* position of the running sync_documents invocation
    documents,          \* its argument
    idx,                \* position of doc_info in documents (1-based)
    sync_state,         \* its local sync_state
    synced_count,
    failed_count,
    failed_docs,
    temp_file_path,     \* TRUE while the downloaded temporary file exists
    outcome,            \* (success, error) returned by sync_document
    result,             \* the report returned to the caller
    \* history variables, read by no action's guard
    entry_file,         \* the state file as it was when the invocation started
    outcome_log,        \* per examined document: skipped / indexed / the failure
    n_loads,            \* get_sync_state calls of this invocation
    n_saves,            \* save_sync_state calls of this invocation
    index_count,        \* per (id, modified): accepted upserts so far
    last_success,       \* per id: modified of its latest successful sync_document
    replay_documents,   \* the list of the previous invocation, when it is replayed
    rerun,              \* TRUE when this invocation replays the previous list
    crash_pc,           \* where the last crash hit, "none" otherwise
    caller,             \* the entry point that called sync_documents
    discovered,         \* what discover_documents returned to its caller
    fault,              \* history: the invocation-level failure that happened
    lost_documents,     \* history: the batch whose final write failed
    text_splitter,      \* chunk_size and chunk_overlap of the DocumentProcessor
    temp_name,          \* basename of the downloaded temporary file
    text,               \* the text extract_text returned (process_document)
    chunk_documents,    \* the chunks process_document returned
    store,              \* the Chroma collection: chunk id -> metadata
    other,              \* a second sync_documents invocation on the same file
    temp_files,         \* the temporary files download_document left on disk
    downloaded          \* history: the last download_document, its result and the file it made

locals == <<documents, idx, sync_state, synced_count, failed_count, failed_docs,
            temp_file_path, outcome>>
history == <<entry_file, outcome_log, n_loads, n_saves, index_count, last_success,
             replay_documents, rerun, crash_pc>>
\* The temporary directory as download_document sees it.
tempdir == <<temp_files, downloaded>>
\* What the steps of the sync_documents loop never touch.
added == <<lost_documents, text_splitter, tempdir, temp_name, text, chunk_documents,
           store, other>>
\* What belongs to the call in progress.
call == <<caller, fault, discovered>>
vars == <<file, rag_pipeline, now, pc, result, locals, history, call, added>>

\* ------------------------------------------------------ pure functions
\* is_document_supported without the lower(): the suffix compared as written.
is_document_supported_cs(doc_info) ==
    PathSuffix(doc_info.name) \in SUPPORTED_EXTENSIONS

is_document_supported(doc_info) ==
    Lower(PathSuffix(doc_info.name)) \in SUPPORTED_EXTENSIONS

\* should_sync_document skipping every document that has an entry.
should_sync_document_once(doc_info, state) ==
    /\ doc_info.id # NoId
    /\ is_document_supported(doc_info)
    /\ doc_info.id \notin DOMAIN state.synced_documents

\* should_sync_document comparing with >= where the code has >.
should_sync_document_ge(doc_info, state) ==
    IF doc_info.id = NoId THEN FALSE
    ELSE IF ~is_document_supported(doc_info) THEN FALSE
    ELSE IF /\ doc_info.id \in DOMAIN state.synced_documents
            /\ doc_info.modified # 0
            /\ state.synced_documents[doc_info.id].modified # 0
         THEN doc_info.modified >= state.synced_documents[doc_info.id].modified
    ELSE TRUE

\* should_sync_document without the check of the document type.
should_sync_document_any(doc_info, state) ==
    IF doc_info.id = NoId THEN FALSE
    ELSE IF /\ doc_info.id \in DOMAIN state.synced_documents
            /\ doc_info.modified # 0
            /\ state.synced_documents[doc_info.id].modified # 0
         THEN doc_info.modified > state.synced_documents[doc_info.id].modified
    ELSE TRUE

\* should_sync_document leaving out the documents the state lists as failed.
should_sync_document_unfailed(doc_info, state) ==
    IF doc_info.id = NoId THEN FALSE
    ELSE IF ~is_document_supported(doc_info) THEN FALSE
    ELSE IF \E j \in 1..Len(state.failed_documents) :
                state.failed_documents[j].id = doc_info.id
         THEN FALSE
    ELSE IF /\ doc_info.id \in DOMAIN state.synced_documents
            /\ doc_info.modified # 0
            /\ state.synced_documents[doc_info.id].modified # 0
         THEN doc_info.modified > state.synced_documents[doc_info.id].modified
    ELSE TRUE

\* should_sync_document looking at the state file instead of the state the
\* loop has updated.
should_sync_document_loaded(doc_info, state) ==
    LET loaded == IF file.exists THEN file.state ELSE DefaultState
    IN IF doc_info.id = NoId THEN FALSE
       ELSE IF ~is_document_supported(doc_info) THEN FALSE
       ELSE IF /\ doc_info.id \in DOMAIN loaded.synced_documents
               /\ doc_info.modified # 0
               /\ loaded.synced_documents[doc_info.id].modified # 0
            THEN doc_info.modified > loaded.synced_documents[doc_info.id].modified
       ELSE TRUE

should_sync_document(doc_info, state) ==
    IF doc_info.id = NoId THEN FALSE
    ELSE IF ~is_document_supported(doc_info) THEN FALSE
    ELSE IF /\ doc_info.id \in DOMAIN state.synced_documents
            /\ doc_info.modified # 0
            /\ state.synced_documents[doc_info.id].modified # 0
         THEN doc_info.modified > state.synced_documents[doc_info.id].modified
    ELSE TRUE

\* json.load of the state file, or the default; a truncated file does not parse.
CanLoad(f) == ~f.exists \/ f.complete

get_sync_state(f) == IF f.exists THEN f.state ELSE DefaultState

\* The entry written for a synced document (lines 195-199).
SyncedEntry(doc_info, t) ==
    [name |-> doc_info.name, modified |-> doc_info.modified, sync_date |-> t]

\* The entry appended for a failed document (lines 202-206).
FailureEntry(doc_info, error) ==
    [id |-> doc_info.id, name |-> doc_info.name, error |-> error]

Put(f, k, v) == [x \in DOMAIN f \cup {k} |-> IF x = k THEN v ELSE f[x]]


\* WithSyncedEntry storing the entry without the record's modified value.
WithSyncedEntry_nofp(state, doc_info, t) ==
    [state EXCEPT !.synced_documents =
        Put(@, doc_info.id, [SyncedEntry(doc_info, t) EXCEPT !.modified = 0])]

\* The state after lines 195-199 for a document that synced.
WithSyncedEntry(state, doc_info, t) ==
    [state EXCEPT !.synced_documents = Put(@, doc_info.id, SyncedEntry(doc_info, t))]

\* StateToSave appending to the failures of earlier invocations.
StateToSave_append(state, failures, t) ==
    [state EXCEPT !.last_sync = t, !.failed_documents = @ \o failures]

\* StateToSave leaving last_sync as it was loaded.
StateToSave_stale(state, failures, t) ==
    [state EXCEPT !.failed_documents = failures]

\* The state handed to save_sync_state (lines 209-210).
StateToSave(state, failures, t) ==
    [state EXCEPT !.last_sync = t, !.failed_documents = failures]

\* The report of lines 213-219.
Report(n_synced, n_failed, failures, docs) ==
    [status |-> "returned", success |-> (n_failed = 0), synced_count |-> n_synced,
     failed_count |-> n_failed, failed_documents |-> failures,
     total_processed |-> Len(docs)]

Bump(f, k) == [f EXCEPT ![k] = @ + 1]

\* What the caller of the entry point `by` gets when an exception leaves
\* sync_documents: the exception itself, or, from sync_recent_documents and
\* sync_folder, the dictionary of their except branch.
Raised(by) ==
    IF by = "sync_documents" THEN [NoResult EXCEPT !.status = "raised"]
    ELSE ErrorReport

\* ------------------------------------------------------------ chunking
\* Config.CHUNK_SIZE and Config.CHUNK_OVERLAP.
CHUNK_SIZE == 1000
CHUNK_OVERLAP == 200

\* The splitter DocumentProcessor.__init__ builds (lines 10-15).
ConfiguredSplitter == [chunk_size |-> CHUNK_SIZE, chunk_overlap |-> CHUNK_OVERLAP]

\* A text is a sequence of characters; a letter, a blank and a newline stand
\* for all of them.
Chars == {"a", " ", "\n"}

\* str.strip() removes these.
IsSpace(c) == c \in {" ", "\n"}

\* The separators RecursiveCharacterTextSplitter tries, in its order; the
\* last one, the empty string, splits between every two characters.
Separators == << <<"\n", "\n">>, <<"\n">>, <<" ">>, <<>> >>

\* A slice of the text is the pair of its first and last position; NoSlice is
\* the empty string.
NoSlice == <<1, 0>>

SliceLen(r) == r[2] - r[1] + 1

\* t[r].strip(): the slice without the white space at its two ends.
Strip(t, r) ==
    LET inked == {i \in r[1]..r[2] : ~IsSpace(t[i])}
    IN IF inked = {} THEN NoSlice
       ELSE <<CHOOSE i \in inked : \A j \in inked : i <= j,
              CHOOSE i \in inked : \A j \in inked : i >= j>>

MatchesAt(t, i, sep) == \A k \in 1..Len(sep) : t[i + k - 1] = sep[k]

\* The positions where re.split finds sep in t[i..hi]: leftmost first, not
\* overlapping.
RECURSIVE Occurrences(_, _, _, _)
Occurrences(t, i, hi, sep) ==
    IF i + Len(sep) - 1 > hi THEN <<>>
    ELSE IF MatchesAt(t, i, sep)
         THEN <<i>> \o Occurrences(t, i + Len(sep), hi, sep)
         ELSE Occurrences(t, i + 1, hi, sep)

\* _split_text_with_regex keeping the separator: what precedes the first
\* separator, then every separator with what follows it; the empty separator
\* gives the characters one by one; empty pieces are left out.
SplitWithSeparator(t, r, sep) ==
    IF sep = <<>> THEN [k \in 1..SliceLen(r) |-> <<r[1] + k - 1, r[1] + k - 1>>]
    ELSE LET at == Occurrences(t, r[1], r[2], sep)
         IN IF at = <<>> THEN <<r>>
            ELSE (IF at[1] > r[1] THEN << <<r[1], at[1] - 1>> >> ELSE <<>>)
                 \o [k \in 1..Len(at) |->
                        <<at[k], IF k < Len(at) THEN at[k + 1] - 1 ELSE r[2]>>]

\* The slice a window of consecutive pieces spans, and its length (the pieces
\* are joined with the empty string).
Span(window) ==
    IF window = <<>> THEN NoSlice ELSE <<window[1][1], window[Len(window)][2]>>

\* _join_docs: the window joined and stripped; nothing when that is empty.
JoinDocs(t, window) ==
    IF Strip(t, Span(window)) = NoSlice THEN <<>> ELSE <<Strip(t, Span(window))>>

\* The while loop of _merge_splits: pieces leave the window at its front
\* until what stays is no longer than the overlap and has room for the next
\* piece, of length n.
RECURSIVE DropFront(_, _, _)
DropFront(window, n, splitter) ==
    LET total == SliceLen(Span(window))
    IN IF \/ total > splitter.chunk_overlap
          \/ (total + n > splitter.chunk_size /\ total > 0)
       THEN DropFront(Tail(window), n, splitter)
       ELSE window

\* _merge_splits from piece k on: a piece that does not fit closes the
\* window as a chunk; the last window is a chunk too.
RECURSIVE MergeSplits(_, _, _, _, _)
MergeSplits(t, pieces, k, window, splitter) ==
    IF k > Len(pieces) THEN JoinDocs(t, window)
    ELSE LET n == SliceLen(pieces[k])
             full == SliceLen(Span(window)) + n > splitter.chunk_size
         IN (IF full /\ window # <<>> THEN JoinDocs(t, window) ELSE <<>>)
            \o MergeSplits(t, pieces, k + 1,
                           Append(IF full /\ window # <<>>
                                  THEN DropFront(window, n, splitter)
                                  ELSE window,
                                  pieces[k]),
                           splitter)

\* The first separator of seps that is empty or occurs in the slice.
RECURSIVE PickSeparator(_, _, _, _)
PickSeparator(t, r, seps, i) ==
    IF i > Len(seps) THEN Len(seps)
    ELSE IF seps[i] = <<>> \/ Occurrences(t, r[1], r[2], seps[i]) # <<>> THEN i
    ELSE PickSeparator(t, r, seps, i + 1)

\* RecursiveCharacterTextSplitter._split_text on the slice r: the pieces
\* shorter than chunk_size are merged, a longer one is split again with the
\* separators that are left, or kept as it is when none is left.
RECURSIVE SplitText(_, _, _, _)
RECURSIVE SplitPieces(_, _, _, _, _, _)
SplitPieces(t, pieces, k, good, rest, splitter) ==
    LET merged == IF good = <<>> THEN <<>>
                  ELSE MergeSplits(t, good, 1, <<>>, splitter)
    IN IF k > Len(pieces) THEN merged
       ELSE IF SliceLen(pieces[k]) < splitter.chunk_size
            THEN SplitPieces(t, pieces, k + 1, Append(good, pieces[k]), rest, splitter)
       ELSE merged
            \o (IF rest = <<>> THEN <<pieces[k]>>
                ELSE SplitText(t, pieces[k], rest, splitter))
            \o SplitPieces(t, pieces, k + 1, <<>>, rest, splitter)

SplitText(t, r, seps, splitter) ==
    LET i == PickSeparator(t, r, seps, 1)
        rest == IF seps[i] = <<>> THEN <<>> ELSE SubSeq(seps, i + 1, Len(seps))
    IN SplitPieces(t, SplitWithSeparator(t, r, seps[i]), 1, <<>>, rest, splitter)

\* text_splitter.split_text(text): the slices of the text that are its chunks.
split_text(t, splitter) ==
    IF t = <<>> THEN <<>> ELSE SplitText(t, <<1, Len(t)>>, Separators, splitter)

\* process_document returning no chunk for a blank text.
process_document_empty(t, source, splitter) ==
    LET chunks == IF Strip(t, <<1, Len(t)>>) = NoSlice THEN <<>>
                  ELSE split_text(t, splitter)
    IN [status |-> "returned",
        documents |-> [i \in 1..Len(chunks) |->
            [page_content |-> chunks[i], source |-> source,
             chunk_id |-> i - 1, total_chunks |-> Len(chunks)]]]

\* process_document numbering the chunks from 1.
process_document_from1(t, source, splitter) ==
    IF Strip(t, <<1, Len(t)>>) = NoSlice
    THEN [status |-> "raised", documents |-> <<>>]
    ELSE LET chunks == split_text(t, splitter)
         IN [status |-> "returned",
             documents |-> [i \in 1..Len(chunks) |->
                 [page_content |-> chunks[i], source |-> source,
                  chunk_id |-> i, total_chunks |-> Len(chunks)]]]

\* process_document (lines 61-92) on the extracted text t of the file named
\* source: ValueError when the text is blank, otherwise one document per
\* chunk with its number and the number of chunks.
process_document(t, source, splitter) ==
    IF Strip(t, <<1, Len(t)>>) = NoSlice
    THEN [status |-> "raised", documents |-> <<>>]
    ELSE LET chunks == split_text(t, splitter)
         IN [status |-> "returned",
             documents |->
                 [i \in 1..Len(chunks) |->
                     [page_content |-> chunks[i], source |-> source,
                      chunk_id |-> i - 1, total_chunks |-> Len(chunks)]]]

\* "doc_{i}_{source}_{chunk_id}" for the i-th document of the batch handed to
\* VectorStore.add_documents (lines 49-50); i and chunk_id are integers, so the
\* string determines the three parts and the triple stands for it.
ChunkIds(docs) ==
    [i \in 1..Len(docs) |-> <<i - 1, docs[i].source, docs[i].chunk_id>>]

\* The collection after vector_store.add_documents(docs, ids): a chunk with a
\* known id replaces the stored one, any other is added. Each chunk carries
\* the metadata sync_document has put on it (lines 101-109).
Upserted(collection, docs, doc_info) ==
    LET ids == {ChunkIds(docs)[i] : i \in 1..Len(docs)}
    IN [k \in DOMAIN collection \cup ids |->
          IF k \in ids
          THEN [netdocuments_id |-> doc_info.id,
                netdocuments_modified |-> doc_info.modified,
                chunk_id |-> k[3]]
          ELSE collection[k]]

\* ---------------------------------------------------------------- Init
\* Nothing has been called, downloaded or stored yet.
InitAdded ==
    /\ caller = "none"
    /\ discovered = NoDiscovery
    /\ fault = "none"
    /\ lost_documents = NoLoss
    /\ text_splitter = ConfiguredSplitter
    /\ temp_name = ""
    /\ temp_files = {}
    /\ downloaded = NoDownload
    /\ text = <<>>
    /\ chunk_documents = NoDocuments
    /\ store = NoChunks
    /\ other = NoOther

Init ==
    /\ file = NoFile
    /\ rag_pipeline \in BOOLEAN
    /\ now = 0
    /\ pc = "idle"
    /\ result = NoResult
    /\ documents = <<>>
    /\ idx = 1
    /\ sync_state = DefaultState
    /\ synced_count = 0
    /\ failed_count = 0
    /\ failed_docs = <<>>
    /\ temp_file_path = FALSE
    /\ outcome = NoOutcome
    /\ entry_file = NoFile
    /\ outcome_log = <<>>
    /\ n_loads = 0
    /\ n_saves = 0
    /\ index_count = [p \in DocIds \X Modified |-> 0]
    /\ last_success = NoEntries
    /\ replay_documents = <<>>
    /\ rerun = FALSE
    /\ crash_pc = "none"
    /\ InitAdded

\* ------------------------------------------------------------- actions
\* sync_documents is called with docs (lines 176-183): the state is loaded,
\* the counters start at zero. json.load raises on a truncated file and the
\* exception leaves sync_documents.
Enter(docs, replayed, keep, by, listing) ==
    /\ pc = "idle"
    /\ caller' = by
    /\ fault' = listing
    /\ discovered' = NoDiscovery
    /\ now < MaxRuns
    /\ now' = now + 1
    /\ n_loads' = 1
    /\ n_saves' = 0
    /\ entry_file' = file
    /\ outcome_log' = <<>>
    /\ crash_pc' = "none"
    /\ rerun' = replayed
    /\ replay_documents' = keep
    /\ IF CanLoad(file)
       THEN /\ sync_state' = get_sync_state(file)
            /\ documents' = docs
            /\ pc' = "loop"
            /\ result' = NoResult
       ELSE /\ pc' = "idle"
            /\ result' = Raised(by)
            /\ UNCHANGED <<sync_state, documents>>
    /\ idx' = 1
    /\ synced_count' = 0
    /\ failed_count' = 0
    /\ failed_docs' = <<>>
    /\ UNCHANGED <<file, rag_pipeline, temp_file_path, outcome, index_count,
                   last_success, added>>

SyncDocuments == \E docs \in DocLists : Enter(docs, FALSE, <<>>, "sync_documents", "none")

\* LoopSkip stamping the entry of the document it skips with the time of
\* this invocation.
LoopSkip_touch ==
    /\ pc = "loop"
    /\ idx <= Len(documents)
    /\ ~should_sync_document(documents[idx], sync_state)
    /\ idx' = idx + 1
    /\ outcome_log' = Append(outcome_log, "skipped")
    /\ sync_state' =
         IF documents[idx].id \in DOMAIN sync_state.synced_documents
         THEN [sync_state EXCEPT !.synced_documents[documents[idx].id].sync_date = now]
         ELSE sync_state
    /\ UNCHANGED <<file, rag_pipeline, now, pc, result, documents,
                   synced_count, failed_count, failed_docs, temp_file_path, outcome,
                   entry_file, n_loads, n_saves, index_count, last_success,
                   replay_documents, rerun, crash_pc,
                   call, added>>

\* The loop head with a document that should_sync_document rejects (185-187).
LoopSkip ==
    /\ pc = "loop"
    /\ idx <= Len(documents)
    /\ ~should_sync_document(documents[idx], sync_state)
    /\ idx' = idx + 1
    /\ outcome_log' = Append(outcome_log, "skipped")
    /\ UNCHANGED <<file, rag_pipeline, now, pc, result, documents, sync_state,
                   synced_count, failed_count, failed_docs, temp_file_path, outcome,
                   entry_file, n_loads, n_saves, index_count, last_success,
                   replay_documents, rerun, crash_pc,
                   call, added>>

\* Download with the client's exception leaving sync_document and
\* sync_documents instead of being caught.
Download_propagate ==
    /\ pc = "loop"
    /\ idx <= Len(documents)
    /\ should_sync_document(documents[idx], sync_state)
    /\ \E r \in {"path", "none", "raise"} :
         \/ /\ r = "path"
            /\ temp_file_path' = TRUE
            /\ pc' = "process"
            /\ UNCHANGED <<outcome, outcome_log, result>>
         \/ /\ r = "none"
            /\ outcome' = [success |-> FALSE, error |-> "Failed to download document"]
            /\ outcome_log' = Append(outcome_log, "download_failed")
            /\ pc' = "record"
            /\ UNCHANGED <<temp_file_path, result>>
         \/ /\ r = "raise"
            /\ result' = Raised(caller)
            /\ outcome_log' = Append(outcome_log, "download_failed")
            /\ pc' = "idle"
            /\ UNCHANGED <<temp_file_path, outcome>>
    /\ UNCHANGED <<file, rag_pipeline, now, documents, idx, sync_state,
                   synced_count, failed_count, failed_docs,
                   entry_file, n_loads, n_saves, index_count, last_success,
                   replay_documents, rerun, crash_pc,
                   call, added>>

\* An eligible document enters sync_document, which downloads it (lines
\* 186-189 and 81-94):
\* the client returns a path, returns None, or raises.
Download ==
    /\ pc = "loop"
    /\ idx <= Len(documents)
    /\ should_sync_document(documents[idx], sync_state)
    /\ \E r \in {"path", "none", "raise"} :
         \/ /\ r = "path"
            /\ temp_file_path' = TRUE
            /\ pc' = "process"
            /\ UNCHANGED <<outcome, outcome_log>>
         \/ /\ r = "none"
            /\ outcome' = [success |-> FALSE, error |-> "Failed to download document"]
            /\ outcome_log' = Append(outcome_log, "download_failed")
            /\ pc' = "record"
            /\ UNCHANGED temp_file_path
         \/ /\ r = "raise"
            /\ outcome' = [success |-> FALSE, error |-> "Error syncing document"]
            /\ outcome_log' = Append(outcome_log, "download_failed")
            /\ pc' = "record"
            /\ UNCHANGED temp_file_path
    /\ UNCHANGED <<file, rag_pipeline, now, result, documents, idx, sync_state,
                   synced_count, failed_count, failed_docs,
                   entry_file, n_loads, n_saves, index_count, last_success,
                   replay_documents, rerun, crash_pc,
                   call, added>>

\* process_document on the downloaded file (96-109): chunks, or an exception
\* (extraction failed, no text), which runs the finally and the outer except.
ProcessDocument ==
    /\ pc = "process"
    /\ \E ok \in BOOLEAN :
         IF ok
         THEN /\ pc' = "upsert"
              /\ UNCHANGED <<temp_file_path, outcome, outcome_log>>
         ELSE /\ temp_file_path' = FALSE
              /\ outcome' = [success |-> FALSE, error |-> "Error syncing document"]
              /\ outcome_log' = Append(outcome_log, "process_failed")
              /\ pc' = "record"
    /\ UNCHANGED <<file, rag_pipeline, now, result, documents, idx, sync_state,
                   synced_count, failed_count, failed_docs,
                   entry_file, n_loads, n_saves, index_count, last_success,
                   replay_documents, rerun, crash_pc,
                   call, added>>

\* The chunks go to the knowledge base when a pipeline is there (111-125);
\* the temporary file is removed on the way out.
AddToKnowledgeBase ==
    /\ pc = "upsert"
    /\ LET doc_info == documents[idx]
           key == <<doc_info.id, doc_info.modified>>
       IN \E accepted \in BOOLEAN :
            /\ rag_pipeline \/ accepted
            /\ IF accepted
               THEN /\ outcome' = [success |-> TRUE, error |-> ""]
                    /\ outcome_log' = Append(outcome_log, "indexed")
                    /\ index_count' = IF rag_pipeline THEN Bump(index_count, key)
                                      ELSE index_count
                    /\ last_success' = Put(last_success, doc_info.id, doc_info.modified)
               ELSE /\ outcome' = [success |-> FALSE,
                                   error |-> "Failed to add to knowledge base"]
                    /\ outcome_log' = Append(outcome_log, "upsert_failed")
                    /\ UNCHANGED <<index_count, last_success>>
    /\ temp_file_path' = FALSE
    /\ pc' = "record"
    /\ UNCHANGED <<file, rag_pipeline, now, result, documents, idx, sync_state,
                   synced_count, failed_count, failed_docs,
                   entry_file, n_loads, n_saves, replay_documents, rerun, crash_pc,
                   call, added>>

\* RecordOutcome leaving the loop at the first failure.
RecordOutcome_abort ==
    /\ pc = "record"
    /\ IF outcome.success
       THEN /\ synced_count' = synced_count + 1
            /\ sync_state' = WithSyncedEntry(sync_state, documents[idx], now)
            /\ idx' = idx + 1
            /\ UNCHANGED <<failed_count, failed_docs>>
       ELSE /\ failed_count' = failed_count + 1
            /\ failed_docs' = Append(failed_docs,
                                     FailureEntry(documents[idx], outcome.error))
            /\ idx' = Len(documents) + 1
            /\ UNCHANGED <<synced_count, sync_state>>
    /\ outcome' = NoOutcome
    /\ pc' = "loop"
    /\ UNCHANGED <<file, rag_pipeline, now, result, documents, temp_file_path,
                   entry_file, outcome_log, n_loads, n_saves, index_count,
                   last_success, replay_documents, rerun, crash_pc,
                   call, added>>

\* RecordOutcome writing the entry before it looks at success.
RecordOutcome_stamp ==
    /\ pc = "record"
    /\ sync_state' = WithSyncedEntry(sync_state, documents[idx], now)
    /\ IF outcome.success
       THEN /\ synced_count' = synced_count + 1
            /\ UNCHANGED <<failed_count, failed_docs>>
       ELSE /\ failed_count' = failed_count + 1
            /\ failed_docs' = Append(failed_docs,
                                     FailureEntry(documents[idx], outcome.error))
            /\ UNCHANGED <<synced_count>>
    /\ idx' = idx + 1
    /\ outcome' = NoOutcome
    /\ pc' = "loop"
    /\ UNCHANGED <<file, rag_pipeline, now, result, documents, temp_file_path,
                   entry_file, outcome_log, n_loads, n_saves, index_count,
                   last_success, replay_documents, rerun, crash_pc,
                   call, added>>

\* RecordOutcome saving the state file after every synced document.
RecordOutcome_save ==
    /\ pc = "record"
    /\ IF outcome.success
       THEN /\ synced_count' = synced_count + 1
            /\ sync_state' = WithSyncedEntry(sync_state, documents[idx], now)
            /\ file' = [exists |-> TRUE, complete |-> TRUE, state |-> sync_state']
            /\ UNCHANGED <<failed_count, failed_docs>>
       ELSE /\ failed_count' = failed_count + 1
            /\ failed_docs' = Append(failed_docs,
                                     FailureEntry(documents[idx], outcome.error))
            /\ UNCHANGED <<synced_count, sync_state, file>>
    /\ idx' = idx + 1
    /\ outcome' = NoOutcome
    /\ pc' = "loop"
    /\ UNCHANGED <<rag_pipeline, now, result, documents, temp_file_path,
                   entry_file, outcome_log, n_loads, n_saves, index_count,
                   last_success, replay_documents, rerun, crash_pc,
                   call, added>>

\* RecordOutcome appending the failure without counting it.
RecordOutcome_nocount ==
    /\ pc = "record"
    /\ IF outcome.success
       THEN /\ synced_count' = synced_count + 1
            /\ sync_state' = WithSyncedEntry(sync_state, documents[idx], now)
            /\ UNCHANGED <<failed_count, failed_docs>>
       ELSE /\ failed_count' = failed_count
            /\ failed_docs' = Append(failed_docs,
                                     FailureEntry(documents[idx], outcome.error))
            /\ UNCHANGED <<synced_count, sync_state>>
    /\ idx' = idx + 1
    /\ outcome' = NoOutcome
    /\ pc' = "loop"
    /\ UNCHANGED <<file, rag_pipeline, now, result, documents, temp_file_path,
                   entry_file, outcome_log, n_loads, n_saves, index_count,
                   last_success, replay_documents, rerun, crash_pc,
                   call, added>>

\* RecordOutcome putting the latest failure first.
RecordOutcome_prepend ==
    /\ pc = "record"
    /\ IF outcome.success
       THEN /\ synced_count' = synced_count + 1
            /\ sync_state' = WithSyncedEntry(sync_state, documents[idx], now)
            /\ UNCHANGED <<failed_count, failed_docs>>
       ELSE /\ failed_count' = failed_count + 1
            /\ failed_docs' = <<FailureEntry(documents[idx], outcome.error)>>
                                  \o failed_docs
            /\ UNCHANGED <<synced_count, sync_state>>
    /\ idx' = idx + 1
    /\ outcome' = NoOutcome
    /\ pc' = "loop"
    /\ UNCHANGED <<file, rag_pipeline, now, result, documents, temp_file_path,
                   entry_file, outcome_log, n_loads, n_saves, index_count,
                   last_success, replay_documents, rerun, crash_pc,
                   call, added>>

\* sync_document has returned (success, error); lines 191-206.
RecordOutcome ==
    /\ pc = "record"
    /\ IF outcome.success
       THEN /\ synced_count' = synced_count + 1
            /\ sync_state' = WithSyncedEntry(sync_state, documents[idx], now)
            /\ UNCHANGED <<failed_count, failed_docs>>
       ELSE /\ failed_count' = failed_count + 1
            /\ failed_docs' = Append(failed_docs,
                                     FailureEntry(documents[idx], outcome.error))
            /\ UNCHANGED <<synced_count, sync_state>>
    /\ idx' = idx + 1
    /\ outcome' = NoOutcome
    /\ pc' = "loop"
    /\ UNCHANGED <<file, rag_pipeline, now, result, documents, temp_file_path,
                   entry_file, outcome_log, n_loads, n_saves, index_count,
                   last_success, replay_documents, rerun, crash_pc,
                   call, added>>

\* Commit reading the state file again and keeping the entries other
\* invocations have written for the documents this one did not sync.
Commit_reload ==
    /\ pc = "loop"
    /\ idx > Len(documents)
    /\ LET mine == {documents[k].id : k \in {j \in 1..Len(outcome_log) :
                                                 outcome_log[j] = "indexed"}}
           theirs == IF CanLoad(file) THEN get_sync_state(file).synced_documents
                     ELSE NoEntries
           merged == [id \in DOMAIN theirs \cup DOMAIN sync_state.synced_documents |->
                        IF id \in mine \/ id \notin DOMAIN theirs
                        THEN sync_state.synced_documents[id]
                        ELSE theirs[id]]
       IN sync_state' = StateToSave([sync_state EXCEPT !.synced_documents = merged],
                                    failed_docs, now)
    /\ file' = [exists |-> TRUE, complete |-> FALSE, state |-> DefaultState]
    /\ n_saves' = n_saves + 1
    /\ pc' = "dump"
    /\ UNCHANGED <<rag_pipeline, now, result, documents, idx, synced_count,
                   failed_count, failed_docs, temp_file_path, outcome,
                   entry_file, outcome_log, n_loads, index_count, last_success,
                   replay_documents, rerun, crash_pc,
                   call, added>>

\* The loop is over (208-211): last_sync and failed_documents are set and
\* save_sync_state opens the state file for writing, which truncates it.
Commit ==
    /\ pc = "loop"
    /\ idx > Len(documents)
    /\ sync_state' = StateToSave(sync_state, failed_docs, now)
    /\ file' = [exists |-> TRUE, complete |-> FALSE, state |-> DefaultState]
    /\ n_saves' = n_saves + 1
    /\ pc' = "dump"
    /\ UNCHANGED <<rag_pipeline, now, result, documents, idx, synced_count,
                   failed_count, failed_docs, temp_file_path, outcome,
                   entry_file, outcome_log, n_loads, index_count, last_success,
                   replay_documents, rerun, crash_pc,
                   call, added>>

\* json.dump writes the state (line 41) and the report is built (213-225).
\* The state holds strings, numbers and None only, and its keys are strings,
\* so what json.load reads back later is the state that was dumped.
JsonDump ==
    /\ pc = "dump"
    /\ file' = [exists |-> TRUE, complete |-> TRUE, state |-> sync_state]
    /\ result' = Report(synced_count, failed_count, failed_docs, documents)
    /\ pc' = "done"
    /\ UNCHANGED <<rag_pipeline, now, locals, history, call, added>>

\* The report reaches the caller; the frame of sync_documents is gone.
Return ==
    /\ pc = "done"
    /\ pc' = "idle"
    /\ result' = NoResult
    /\ documents' = <<>>
    /\ idx' = 1
    /\ sync_state' = DefaultState
    /\ synced_count' = 0
    /\ failed_count' = 0
    /\ failed_docs' = <<>>
    /\ outcome' = NoOutcome
    /\ entry_file' = NoFile
    /\ outcome_log' = <<>>
    /\ n_loads' = 0
    /\ n_saves' = 0
    /\ rerun' = FALSE
    /\ caller' = "none"
    /\ fault' = "none"
    /\ discovered' = NoDiscovery
    /\ UNCHANGED <<file, rag_pipeline, now, temp_file_path, index_count,
                   last_success, replay_documents, crash_pc, added>>

Next ==
    \/ SyncDocuments
    \/ LoopSkip
    \/ Download
    \/ ProcessDocument
    \/ AddToKnowledgeBase
    \/ RecordOutcome
    \/ Commit
    \/ JsonDump
    \/ Return

Spec == Init /\ [][Next]_vars

\* ------------------------------------------- the same list, synced again
\* The first invocation takes any list; every later one takes the same list.
FirstSync == now = 0 /\ \E docs \in DocLists : Enter(docs, FALSE, docs, "sync_documents", "none")

RepeatSync == now > 0 /\ Enter(replay_documents, TRUE, replay_documents,
                            "sync_documents", "none")

NextRerun ==
    \/ FirstSync
    \/ RepeatSync
    \/ LoopSkip
    \/ Download
    \/ ProcessDocument
    \/ AddToKnowledgeBase
    \/ RecordOutcome
    \/ Commit
    \/ JsonDump
    \/ Return

SpecRerun == Init /\ [][NextRerun]_vars

\* ------------------------- the same documents again, some of them modified
\* The lists that hold the documents of prev, each with the modified value
\* it had or a later one.
AdvancedLists(prev) ==
    {docs \in [1..Len(prev) -> BatchRecords] :
        \A k \in 1..Len(prev) :
            /\ docs[k].id = prev[k].id
            /\ docs[k].name = prev[k].name
            /\ docs[k].modified >= prev[k].modified}

\* The second invocation; replay_documents keeps the list of the first.
AdvancedSync ==
    /\ now > 0
    /\ \E docs \in AdvancedLists(replay_documents) :
         Enter(docs, TRUE, replay_documents, "sync_documents", "none")

NextAdvance ==
    \/ FirstSync
    \/ AdvancedSync
    \/ LoopSkip
    \/ Download
    \/ ProcessDocument
    \/ AddToKnowledgeBase
    \/ RecordOutcome
    \/ Commit
    \/ JsonDump
    \/ Return

SpecAdvance == Init /\ [][NextAdvance]_vars

\* --------------------------------- one document against any sync state
\* The entries a state file can hold after earlier invocations.
StoredEntries ==
    [name : {"a.PDF", "b.txt"}, modified : Modified, sync_date : {1}]

StoredStates ==
    {[last_sync |-> 1, synced_documents |-> e, failed_documents |-> <<>>] :
        e \in UNION {[S -> StoredEntries] : S \in SUBSET DocIds}}

StoredFiles ==
    {NoFile} \cup {[exists |-> TRUE, complete |-> TRUE, state |-> st] :
                      st \in StoredStates}

\* The engine between two invocations, with any state file.
InitStored ==
    /\ file \in StoredFiles
    /\ rag_pipeline \in BOOLEAN
    /\ now = 1
    /\ pc = "idle"
    /\ result = NoResult
    /\ documents = <<>>
    /\ idx = 1
    /\ sync_state = DefaultState
    /\ synced_count = 0
    /\ failed_count = 0
    /\ failed_docs = <<>>
    /\ temp_file_path = FALSE
    /\ outcome = NoOutcome
    /\ entry_file = NoFile
    /\ outcome_log = <<>>
    /\ n_loads = 0
    /\ n_saves = 0
    /\ index_count = [p \in DocIds \X Modified |-> 0]
    /\ last_success = [id \in DOMAIN file.state.synced_documents |->
                         file.state.synced_documents[id].modified]
    /\ replay_documents = <<>>
    /\ rerun = FALSE
    /\ crash_pc = "none"
    /\ InitAdded

\* sync_documents with a list of one record, any record.
SyncOne == \E d \in DocRecords : Enter(<<d>>, FALSE, <<>>, "sync_documents", "none")

NextEligibility ==
    \/ SyncOne
    \/ LoopSkip
    \/ Download
    \/ ProcessDocument
    \/ AddToKnowledgeBase
    \/ RecordOutcome
    \/ Commit
    \/ JsonDump
    \/ Return

SpecEligibility == InitStored /\ [][NextEligibility]_vars

\* ------------------------------------------------- the process can die
\* The process running sync_documents is killed: its frame is lost, the
\* state file and the temporary file stay as they are.
Crash ==
    /\ pc \notin {"idle", "done"}
    /\ crash_pc' = pc
    /\ pc' = "idle"
    /\ result' = NoResult
    /\ documents' = <<>>
    /\ idx' = 1
    /\ sync_state' = DefaultState
    /\ synced_count' = 0
    /\ failed_count' = 0
    /\ failed_docs' = <<>>
    /\ outcome' = NoOutcome
    /\ outcome_log' = <<>>
    /\ n_loads' = 0
    /\ n_saves' = 0
    /\ rerun' = FALSE
    /\ caller' = "none"
    /\ fault' = "none"
    /\ discovered' = NoDiscovery
    /\ UNCHANGED <<file, rag_pipeline, now, temp_file_path, entry_file,
                   index_count, last_success, replay_documents, added>>

NextCrash == Next \/ Crash

SpecCrash == Init /\ [][NextCrash]_vars


\* ------------------------------------ the entry points and a failing save
\* What the remote source lists: two documents of a supported type and one
\* of an unsupported type.
RemoteRecords ==
    {[id |-> "A", name |-> "a.PDF", modified |-> 1],
     [id |-> "B", name |-> "a.PDF", modified |-> 1],
     [id |-> "A", name |-> "c.exe", modified |-> MaxModified]}

RemoteLists == UNION {[1..n -> RemoteRecords] : n \in 0..MaxDocs}

\* A listing call of the remote client (search_documents, get_recent_documents,
\* get_folder_documents): it returns the items; or the request fails, which
\* _make_request turns into None and the call into []; or _get_headers raises
\* ValueError because no token is there.
ListingOutcomes == {"items", "request_failed", "raise"}

\* discover_documents handing on everything the search found.
discover_documents_all(lists) ==
    /\ pc = "idle"
    /\ \E r \in ListingOutcomes, items \in lists :
         /\ r # "items" => items = <<>>
         /\ discovered' = [status |-> "returned", search |-> r, found |-> items,
                           documents |-> items]
    /\ UNCHANGED <<file, rag_pipeline, now, pc, result, locals, history, caller,
                   fault, added>>

\* discover_documents (lines 132-154) when the search can find the lists of
\* lists: the search result filtered by type; an exception of the search is
\* logged and [] is returned.
discover_documents(lists) ==
    /\ pc = "idle"
    /\ \E r \in ListingOutcomes, items \in lists :
         /\ r # "items" => items = <<>>
         /\ discovered' = [status |-> "returned", search |-> r, found |-> items,
                           documents |-> SelectSeq(items, is_document_supported)]
    /\ UNCHANGED <<file, rag_pipeline, now, pc, result, locals, history, caller,
                   fault, added>>

\* A search on the remote source that finds at most one document.
DiscoverRemote == discover_documents({<<>>} \cup {<<d>> : d \in RemoteRecords})

\* sync_recent_documents and sync_folder (lines 156-174, 273-291): the
\* listing, then sync_documents on what it returned, all inside one try whose
\* except branch returns the error dictionary.
SyncListed(by) ==
    /\ pc = "idle"
    /\ now < MaxRuns
    /\ \E r \in ListingOutcomes, items \in RemoteLists :
         /\ r # "items" => items = <<>>
         /\ IF r = "raise"
            THEN /\ result' = ErrorReport
                 /\ fault' = "listing"
                 /\ caller' = "none"
                 /\ discovered' = NoDiscovery
                 /\ now' = now + 1
                 /\ UNCHANGED <<file, rag_pipeline, pc, locals, history, added>>
            ELSE Enter(items, FALSE, <<>>, by,
                       IF r = "items" THEN "none" ELSE "listing")

sync_recent_documents == SyncListed("sync_recent_documents")

sync_folder == SyncListed("sync_folder")

\* sync_documents called with a list of the remote source.
SyncRemote ==
    \E docs \in RemoteLists : Enter(docs, FALSE, <<>>, "sync_documents", "none")

\* The invocation after a failed save gets the same documents again.
SyncRetry ==
    /\ now > 0
    /\ lost_documents.at = now
    /\ Enter(lost_documents.documents, TRUE, <<>>, "sync_documents", "none")

\* save_sync_state raises (lines 208-211 and 38-41): open fails and the file
\* is as before, or json.dump fails after open has truncated the file. The
\* exception leaves sync_documents.
SaveRaises ==
    /\ pc = "loop"
    /\ idx > Len(documents)
    /\ \E how \in {"open", "dump"} :
         file' = IF how = "open" THEN file
                 ELSE [exists |-> TRUE, complete |-> FALSE, state |-> DefaultState]
    /\ fault' = "save"
    /\ result' = Raised(caller)
    /\ lost_documents' = [at |-> now, documents |-> documents, log |-> outcome_log]
    /\ pc' = "idle"
    /\ caller' = "none"
    /\ discovered' = NoDiscovery
    /\ documents' = <<>>
    /\ idx' = 1
    /\ sync_state' = DefaultState
    /\ synced_count' = 0
    /\ failed_count' = 0
    /\ failed_docs' = <<>>
    /\ outcome' = NoOutcome
    /\ outcome_log' = <<>>
    /\ n_loads' = 0
    /\ n_saves' = 0
    /\ rerun' = FALSE
    /\ UNCHANGED <<rag_pipeline, now, temp_file_path, entry_file, index_count,
                   last_success, replay_documents, crash_pc, text_splitter, tempdir,
                   temp_name, text, chunk_documents, store, other>>

NextEntryPoints ==
    \/ DiscoverRemote
    \/ sync_recent_documents
    \/ sync_folder
    \/ SyncRemote
    \/ SyncRetry
    \/ LoopSkip
    \/ Download
    \/ ProcessDocument
    \/ AddToKnowledgeBase
    \/ RecordOutcome
    \/ Commit
    \/ JsonDump
    \/ SaveRaises
    \/ Return

SpecEntryPoints == Init /\ [][NextEntryPoints]_vars

\* --------------------------- a document synced twice, from any state file
\* Nothing has been called yet and the state file is any file earlier
\* invocations can have left.
InitRetry ==
    /\ file \in StoredFiles
    /\ rag_pipeline \in BOOLEAN
    /\ now = 0
    /\ pc = "idle"
    /\ result = NoResult
    /\ documents = <<>>
    /\ idx = 1
    /\ sync_state = DefaultState
    /\ synced_count = 0
    /\ failed_count = 0
    /\ failed_docs = <<>>
    /\ temp_file_path = FALSE
    /\ outcome = NoOutcome
    /\ entry_file = NoFile
    /\ outcome_log = <<>>
    /\ n_loads = 0
    /\ n_saves = 0
    /\ index_count = [p \in DocIds \X Modified |-> 0]
    /\ last_success = [id \in DOMAIN file.state.synced_documents |->
                         file.state.synced_documents[id].modified]
    /\ replay_documents = <<>>
    /\ rerun = FALSE
    /\ crash_pc = "none"
    /\ InitAdded

\* The first invocation takes a list of one record; the second takes it again.
SyncFirst ==
    /\ now = 0
    /\ \E d \in BatchRecords : Enter(<<d>>, FALSE, <<d>>, "sync_documents", "none")

NextRetry ==
    \/ SyncFirst
    \/ RepeatSync
    \/ LoopSkip
    \/ Download
    \/ ProcessDocument
    \/ AddToKnowledgeBase
    \/ RecordOutcome
    \/ Commit
    \/ JsonDump
    \/ Return

SpecRetry == InitRetry /\ [][NextRetry]_vars

\* ------------------------------------- one document, several times a batch
\* The records of document A: without a modified value, and with each value.
DuplicateRecords == [id : {"A"}, name : {"a.PDF"}, modified : Modified]

DuplicateLists == UNION {[1..n -> DuplicateRecords] : n \in 0..MaxBatch}

\* sync_documents with a list in which A occurs up to MaxBatch times.
SyncDuplicates ==
    \E docs \in DuplicateLists : Enter(docs, FALSE, <<>>, "sync_documents", "none")

NextDuplicates ==
    \/ SyncDuplicates
    \/ LoopSkip
    \/ Download
    \/ ProcessDocument
    \/ AddToKnowledgeBase
    \/ RecordOutcome
    \/ Commit
    \/ JsonDump
    \/ Return

SpecDuplicates == Init /\ [][NextDuplicates]_vars

\* ------------------------------------------- discovery on its own
\* What a full-text search can find: names of every kind, up to MaxFound of
\* them.
SearchRecords == [id : {"A"}, name : Names, modified : {1}]

SearchLists == UNION {[1..n -> SearchRecords] : n \in 0..MaxFound}

DiscoverSearch == discover_documents(SearchLists)

NextDiscovery == DiscoverSearch

\* discover_documents called between two invocations, with any state file.
SpecDiscovery == InitStored /\ [][NextDiscovery]_vars

\* ------------------------------- process_document on its own (chunking)
\* Longest text, and largest chunk size, the chunking is tried on.
MaxText == 4
MaxChunkSize == 3

Texts == UNION {[1..n -> Chars] : n \in 0..MaxText}

Splitters ==
    {[chunk_size |-> size, chunk_overlap |-> overlap] :
        size \in 1..MaxChunkSize, overlap \in 0..(MaxChunkSize - 1)}

\* A DocumentProcessor with any chunk size and a smaller overlap, and a file
\* with any text in it.
InitChunking ==
    /\ file = NoFile
    /\ rag_pipeline \in BOOLEAN
    /\ now = 0
    /\ pc = "idle"
    /\ result = NoResult
    /\ documents = <<>>
    /\ idx = 1
    /\ sync_state = DefaultState
    /\ synced_count = 0
    /\ failed_count = 0
    /\ failed_docs = <<>>
    /\ temp_file_path = FALSE
    /\ outcome = NoOutcome
    /\ entry_file = NoFile
    /\ outcome_log = <<>>
    /\ n_loads = 0
    /\ n_saves = 0
    /\ index_count = [p \in DocIds \X Modified |-> 0]
    /\ last_success = NoEntries
    /\ replay_documents = <<>>
    /\ rerun = FALSE
    /\ crash_pc = "none"
    /\ caller = "none"
    /\ discovered = NoDiscovery
    /\ fault = "none"
    /\ lost_documents = NoLoss
    /\ text_splitter \in {sp \in Splitters : sp.chunk_overlap < sp.chunk_size}
    /\ temp_name = ""
    /\ temp_files = {}
    /\ downloaded = NoDownload
    /\ text \in Texts
    /\ chunk_documents = NoDocuments
    /\ store = NoChunks
    /\ other = NoOther

\* DocumentProcessor.process_document called on the file (as the upload page
\* and the system test call it).
ProcessFile ==
    /\ pc = "idle"
    /\ chunk_documents' = process_document(text, "upload.txt", text_splitter)
    /\ UNCHANGED <<file, rag_pipeline, now, pc, result, locals, history, call,
                   lost_documents, text_splitter, tempdir, temp_name, text, store, other>>

NextChunking == ProcessFile

SpecChunking == InitChunking /\ [][NextChunking]_vars

\* ------------------------- the sync with its collaborators spelled out
\* Names tempfile.NamedTemporaryFile can give the downloaded file; the suffix
\* is the one of the remote name.
TempNames == {"tmp1.PDF", "tmp2.PDF"}

\* The texts extract_text finds in a downloaded file: none, a blank, one
\* word, two words.
SyncTexts == {<<>>, <<" ">>, <<"a">>, <<"a", " ", "a">>}

\* A splitter small enough for the two-word text to give two chunks.
SmallSplitter == [chunk_size |-> 2, chunk_overlap |-> 0]

StoreRecords == [id : DocIds, name : {"a.PDF"}, modified : 1..MaxModified]

InitStore ==
    /\ file = NoFile
    /\ rag_pipeline \in BOOLEAN
    /\ now = 0
    /\ pc = "idle"
    /\ result = NoResult
    /\ documents = <<>>
    /\ idx = 1
    /\ sync_state = DefaultState
    /\ synced_count = 0
    /\ failed_count = 0
    /\ failed_docs = <<>>
    /\ temp_file_path = FALSE
    /\ outcome = NoOutcome
    /\ entry_file = NoFile
    /\ outcome_log = <<>>
    /\ n_loads = 0
    /\ n_saves = 0
    /\ index_count = [p \in DocIds \X Modified |-> 0]
    /\ last_success = NoEntries
    /\ replay_documents = <<>>
    /\ rerun = FALSE
    /\ crash_pc = "none"
    /\ caller = "none"
    /\ discovered = NoDiscovery
    /\ fault = "none"
    /\ lost_documents = NoLoss
    /\ text_splitter \in {ConfiguredSplitter, SmallSplitter}
    /\ temp_name = ""
    /\ temp_files = {}
    /\ downloaded = NoDownload
    /\ text = <<>>
    /\ chunk_documents = NoDocuments
    /\ store = NoChunks
    /\ other = NoOther

\* sync_documents with a list of one record of a supported type.
SyncStored ==
    \E d \in StoreRecords : Enter(<<d>>, FALSE, <<>>, "sync_documents", "none")

\* download_document returning the path of the file it has made when the
\* transfer fails.
download_document_partial ==
    /\ pc = "loop"
    /\ idx <= Len(documents)
    /\ should_sync_document(documents[idx], sync_state)
    /\ chunk_documents' = NoDocuments
    /\ text' = <<>>
    /\ \E r \in {"path", "none", "transfer_failed", "raise"} :
         \/ /\ r = "path"
            /\ \E name \in TempNames \ temp_files :
                 /\ downloaded' = [result |-> r, save_path |-> name]
                 /\ temp_files' = temp_files \cup {name}
                 /\ temp_name' = name
            /\ temp_file_path' = TRUE
            /\ pc' = "process"
            /\ UNCHANGED <<outcome, outcome_log>>
         \/ /\ r = "none"
            /\ downloaded' = [result |-> r, save_path |-> ""]
            /\ outcome' = [success |-> FALSE, error |-> "Failed to download document"]
            /\ outcome_log' = Append(outcome_log, "download_failed")
            /\ pc' = "record"
            /\ UNCHANGED <<temp_file_path, temp_name, temp_files>>
         \/ /\ r = "transfer_failed"
            /\ \E name \in TempNames \ temp_files :
                 /\ downloaded' = [result |-> r, save_path |-> name]
                 /\ temp_files' = temp_files \cup {name}
                 /\ temp_name' = name
            /\ temp_file_path' = TRUE
            /\ pc' = "process"
            /\ UNCHANGED <<outcome, outcome_log>>
         \/ /\ r = "raise"
            /\ downloaded' = [result |-> r, save_path |-> ""]
            /\ outcome' = [success |-> FALSE, error |-> "Error syncing document"]
            /\ outcome_log' = Append(outcome_log, "download_failed")
            /\ pc' = "record"
            /\ UNCHANGED <<temp_file_path, temp_name, temp_files>>
    /\ UNCHANGED <<file, rag_pipeline, now, result, documents, idx, sync_state,
                   synced_count, failed_count, failed_docs,
                   entry_file, n_loads, n_saves, index_count, last_success,
                   replay_documents, rerun, crash_pc,
                   call, lost_documents, text_splitter, store, other>>

\* api.download_document for an eligible document (sync_document lines 89-94,
\* netdocuments_integration.py 169-206): a temporary file with a name of
\* tempfile's choice, or None before any file is made, or None after the
\* file was made and the transfer failed (194-206), or an exception.
download_document ==
    /\ pc = "loop"
    /\ idx <= Len(documents)
    /\ should_sync_document(documents[idx], sync_state)
    /\ chunk_documents' = NoDocuments
    /\ text' = <<>>
    /\ \E r \in {"path", "none", "transfer_failed", "raise"} :
         \/ /\ r = "path"
            /\ \E name \in TempNames \ temp_files :
                 /\ downloaded' = [result |-> r, save_path |-> name]
                 /\ temp_files' = temp_files \cup {name}
                 /\ temp_name' = name
            /\ temp_file_path' = TRUE
            /\ pc' = "process"
            /\ UNCHANGED <<outcome, outcome_log>>
         \/ /\ r = "none"
            /\ downloaded' = [result |-> r, save_path |-> ""]
            /\ outcome' = [success |-> FALSE, error |-> "Failed to download document"]
            /\ outcome_log' = Append(outcome_log, "download_failed")
            /\ pc' = "record"
            /\ UNCHANGED <<temp_file_path, temp_name, temp_files>>
         \/ /\ r = "transfer_failed"
            /\ \E name \in TempNames \ temp_files :
                 /\ downloaded' = [result |-> r, save_path |-> name]
                 /\ temp_files' = temp_files \cup {name}
            /\ outcome' = [success |-> FALSE, error |-> "Failed to download document"]
            /\ outcome_log' = Append(outcome_log, "download_failed")
            /\ pc' = "record"
            /\ UNCHANGED <<temp_file_path, temp_name>>
         \/ /\ r = "raise"
            /\ downloaded' = [result |-> r, save_path |-> ""]
            /\ outcome' = [success |-> FALSE, error |-> "Error syncing document"]
            /\ outcome_log' = Append(outcome_log, "download_failed")
            /\ pc' = "record"
            /\ UNCHANGED <<temp_file_path, temp_name, temp_files>>
    /\ UNCHANGED <<file, rag_pipeline, now, result, documents, idx, sync_state,
                   synced_count, failed_count, failed_docs,
                   entry_file, n_loads, n_saves, index_count, last_success,
                   replay_documents, rerun, crash_pc,
                   call, lost_documents, text_splitter, store, other>>

\* ProcessDownloaded without the finally: an exception leaves the file.
ProcessDownloaded_leak ==
    /\ pc = "process"
    /\ \E extracted \in BOOLEAN, t \in SyncTexts :
         /\ ~extracted => t = <<>>
         /\ text' = t
         /\ chunk_documents' =
                IF extracted THEN process_document(t, temp_name, text_splitter)
                ELSE [status |-> "raised", documents |-> <<>>]
    /\ IF chunk_documents'.status = "returned"
       THEN /\ pc' = "upsert"
            /\ UNCHANGED <<temp_file_path, temp_name, temp_files, outcome,
                           outcome_log>>
       ELSE /\ temp_file_path' = FALSE
            /\ temp_files' = temp_files
            /\ temp_name' = ""
            /\ outcome' = [success |-> FALSE, error |-> "Error syncing document"]
            /\ outcome_log' = Append(outcome_log, "process_failed")
            /\ pc' = "record"
    /\ UNCHANGED <<file, rag_pipeline, now, result, documents, idx, sync_state,
                   synced_count, failed_count, failed_docs,
                   entry_file, n_loads, n_saves, index_count, last_success,
                   replay_documents, rerun, crash_pc,
                   call, lost_documents, text_splitter, store, other, downloaded>>

\* process_document on the downloaded file (sync_document lines 96-109): the
\* extraction raises, or gives a text; a blank text raises; an exception runs
\* the finally, which removes the file, and the outer except.
ProcessDownloaded ==
    /\ pc = "process"
    /\ \E extracted \in BOOLEAN, t \in SyncTexts :
         /\ ~extracted => t = <<>>
         /\ text' = t
         /\ chunk_documents' =
                IF extracted THEN process_document(t, temp_name, text_splitter)
                ELSE [status |-> "raised", documents |-> <<>>]
    /\ IF chunk_documents'.status = "returned"
       THEN /\ pc' = "upsert"
            /\ UNCHANGED <<temp_file_path, temp_name, temp_files, outcome,
                           outcome_log>>
       ELSE /\ temp_file_path' = FALSE
            /\ temp_files' = temp_files \ {temp_name}
            /\ temp_name' = ""
            /\ outcome' = [success |-> FALSE, error |-> "Error syncing document"]
            /\ outcome_log' = Append(outcome_log, "process_failed")
            /\ pc' = "record"
    /\ UNCHANGED <<file, rag_pipeline, now, result, documents, idx, sync_state,
                   synced_count, failed_count, failed_docs,
                   entry_file, n_loads, n_saves, index_count, last_success,
                   replay_documents, rerun, crash_pc,
                   call, lost_documents, text_splitter, store, other, downloaded>>

\* rag_pipeline.add_documents on the chunks (sync_document lines 111-125,
\* rag_pipeline.py 60-77, vector_store.py 45-57): the collection takes them
\* under their ids, or the vector store raises and the pipeline reports no
\* success; without a pipeline nothing is stored. The temporary file is
\* removed on the way out.
add_documents ==
    /\ pc = "upsert"
    /\ LET doc_info == documents[idx]
           key == <<doc_info.id, doc_info.modified>>
       IN \E accepted \in BOOLEAN :
            /\ rag_pipeline \/ accepted
            /\ IF accepted
               THEN /\ outcome' = [success |-> TRUE, error |-> ""]
                    /\ outcome_log' = Append(outcome_log, "indexed")
                    /\ index_count' = IF rag_pipeline THEN Bump(index_count, key)
                                      ELSE index_count
                    /\ store' = IF rag_pipeline
                                THEN Upserted(store, chunk_documents.documents,
                                              doc_info)
                                ELSE store
                    /\ last_success' = Put(last_success, doc_info.id, doc_info.modified)
               ELSE /\ outcome' = [success |-> FALSE,
                                   error |-> "Failed to add to knowledge base"]
                    /\ outcome_log' = Append(outcome_log, "upsert_failed")
                    /\ UNCHANGED <<index_count, last_success, store>>
    /\ temp_file_path' = FALSE
    /\ temp_files' = temp_files \ {temp_name}
    /\ temp_name' = ""
    /\ pc' = "record"
    /\ UNCHANGED <<file, rag_pipeline, now, result, documents, idx, sync_state,
                   synced_count, failed_count, failed_docs,
                   entry_file, n_loads, n_saves, replay_documents, rerun, crash_pc,
                   call, lost_documents, text_splitter, text, chunk_documents,
                   other, downloaded>>

NextStore ==
    \/ SyncStored
    \/ SyncRetry
    \/ LoopSkip
    \/ download_document
    \/ ProcessDownloaded
    \/ add_documents
    \/ RecordOutcome
    \/ Commit
    \/ JsonDump
    \/ SaveRaises
    \/ Return

SpecStore == InitStore /\ [][NextStore]_vars

\* ------------------------------------- two invocations on one state file
\* The lists the two invocations get: one document each.
SharedRecords ==
    {[id |-> "A", name |-> "a.PDF", modified |-> 1],
     [id |-> "B", name |-> "a.PDF", modified |-> 1],
     [id |-> "A", name |-> "a.PDF", modified |-> MaxModified]}

SharedLists == {<<d>> : d \in SharedRecords}

SyncShared ==
    \E docs \in SharedLists : Enter(docs, FALSE, <<>>, "sync_documents", "none")

\* A second process calls sync_documents (lines 176-183) while the first may
\* be anywhere: it loads the state file as it is now; json.load raises on a
\* truncated file.
OtherEnter ==
    /\ other.pc = "idle"
    /\ \E docs \in SharedLists :
         other' = IF CanLoad(file)
                  THEN [pc |-> "loop", documents |-> docs, idx |-> 1,
                        sync_state |-> get_sync_state(file), failed_docs |-> <<>>,
                        synced |-> {}, entry_file |-> file]
                  ELSE [NoOther EXCEPT !.pc = "raised"]
    /\ UNCHANGED <<file, rag_pipeline, now, pc, result, locals, history, call,
                   lost_documents, text_splitter, tempdir, temp_name, text, chunk_documents,
                   store>>

\* One turn of the second invocation's loop (lines 185-206), taken in one
\* step because it touches nothing the first invocation can see: the
\* document is skipped, or synced, or it fails.
OtherSyncDocument ==
    /\ other.pc = "loop"
    /\ other.idx <= Len(other.documents)
    /\ LET doc_info == other.documents[other.idx]
       IN IF ~should_sync_document(doc_info, other.sync_state)
          THEN other' = [other EXCEPT !.idx = @ + 1]
          ELSE \E success \in BOOLEAN :
                 other' =
                   IF success
                   THEN [other EXCEPT
                           !.idx = @ + 1,
                           !.synced = @ \cup {doc_info.id},
                           !.sync_state = WithSyncedEntry(@, doc_info, now)]
                   ELSE [other EXCEPT
                           !.idx = @ + 1,
                           !.failed_docs =
                               Append(@, FailureEntry(doc_info,
                                                      "Error syncing document"))]
    /\ UNCHANGED <<file, rag_pipeline, now, pc, result, locals, history, call,
                   lost_documents, text_splitter, tempdir, temp_name, text, chunk_documents,
                   store>>

\* The second invocation's save (lines 208-211): open truncates the file.
OtherCommit ==
    /\ other.pc = "loop"
    /\ other.idx > Len(other.documents)
    /\ other' = [other EXCEPT
                   !.pc = "dump",
                   !.sync_state = StateToSave(@, other.failed_docs, now)]
    /\ file' = [exists |-> TRUE, complete |-> FALSE, state |-> DefaultState]
    /\ UNCHANGED <<rag_pipeline, now, pc, result, locals, history, call,
                   lost_documents, text_splitter, tempdir, temp_name, text, chunk_documents,
                   store>>

\* json.dump of the second invocation (line 41), and its report.
OtherJsonDump ==
    /\ other.pc = "dump"
    /\ other' = [other EXCEPT !.pc = "done"]
    /\ file' = [exists |-> TRUE, complete |-> TRUE, state |-> other.sync_state]
    /\ UNCHANGED <<rag_pipeline, now, pc, result, locals, history, call,
                   lost_documents, text_splitter, tempdir, temp_name, text, chunk_documents,
                   store>>

NextConcurrent ==
    \/ SyncShared
    \/ LoopSkip
    \/ Download
    \/ ProcessDocument
    \/ AddToKnowledgeBase
    \/ RecordOutcome
    \/ Commit
    \/ JsonDump
    \/ Return
    \/ OtherEnter
    \/ OtherSyncDocument
    \/ OtherCommit
    \/ OtherJsonDump

SpecConcurrent == Init /\ [][NextConcurrent]_vars

\* -------------------------------------------------------------- claims
FailureKinds == {"download_failed", "process_failed", "upsert_failed"}

\* The invocation stands at the loop head and has just dealt with a document.
AfterDocument == pc = "loop" /\ idx > 1 /\ Len(outcome_log) = idx - 1

Entries(state) == state.synced_documents

\* A name of a supported type, whatever the case of its extension.
SupportedType(d) == d.name \in {"a.PDF", "b.txt"}

HasEntry(d, state) == d.id \in DOMAIN Entries(state)

IsFailedAt(k) == outcome_log[k] \in FailureKinds

Positions(n) == [k \in 1..n |-> k]

FailedPositions == SelectSeq(Positions(Len(outcome_log)), IsFailedAt)

\* C2 (monotonic re-sync): a document of a supported type whose id has an
\* entry with an older fingerprint than its modified value is never skipped,
\* and once it is indexed the entry of its id carries its modified value.
C2_MonotonicResync ==
    AfterDocument =>
        LET d == documents[idx - 1] IN
        /\ (/\ outcome_log[idx - 1] = "skipped"
            /\ HasEntry(d, sync_state)
            /\ SupportedType(d))
           => ~(d.modified > Entries(sync_state)[d.id].modified)
        /\ outcome_log[idx - 1] = "indexed"
           => /\ HasEntry(d, sync_state)
              /\ Entries(sync_state)[d.id].modified = d.modified

\* A document with a persisted fingerprint 0 < m < m' has been indexed.
C2_Witness ==
    /\ AfterDocument
    /\ outcome_log[idx - 1] = "indexed"
    /\ LET d == documents[idx - 1] IN
       /\ d.id \in DOMAIN Entries(entry_file.state)
       /\ Entries(entry_file.state)[d.id].modified > 0
       /\ Entries(entry_file.state)[d.id].modified < d.modified
       /\ Entries(sync_state)[d.id].modified = d.modified

DistinctIds(docs) ==
    \A j, k \in 1..Len(docs) : docs[j].id = docs[k].id => j = k

\* The batch of C4: eligible documents with distinct ids, one download
\* failure, and no other failure.
OneDownloadFails ==
    /\ \A k \in 1..Len(documents) :
         should_sync_document(documents[k], get_sync_state(entry_file))
    /\ DistinctIds(documents)
    /\ Cardinality({k \in 1..Len(outcome_log) :
                       outcome_log[k] = "download_failed"}) = 1
    /\ \A k \in 1..Len(outcome_log) :
         outcome_log[k] \notin {"process_failed", "upsert_failed"}

\* C4 (partial-failure isolation): when exactly one download of a batch of N
\* eligible documents with distinct ids fails, all N are attempted, the report
\* counts N-1 synced and 1 failed, and the committed state has the entry of
\* every document that synced.
C4_PartialFailureIsolation ==
    (pc = "done" /\ OneDownloadFails) =>
        LET n == Len(documents) IN
        /\ Len(outcome_log) = n
        /\ \A k \in 1..n : outcome_log[k] # "skipped"
        /\ result.synced_count = n - 1
        /\ result.failed_count = 1
        /\ \A k \in 1..n :
             outcome_log[k] = "indexed" =>
               /\ documents[k].id \in DOMAIN Entries(file.state)
               /\ Entries(file.state)[documents[k].id].modified
                    = documents[k].modified

\* The first of two documents failed to download and the second was indexed.
C4_Witness ==
    /\ pc = "done"
    /\ OneDownloadFails
    /\ Len(documents) = 2
    /\ outcome_log = <<"download_failed", "indexed">>
    /\ documents[2].id \in DOMAIN Entries(file.state)

FingerprintsMatch(state) ==
    /\ DOMAIN Entries(state) = DOMAIN last_success
    /\ \A id \in DOMAIN Entries(state) :
         Entries(state)[id].modified = last_success[id]

\* C5 (fingerprint invariant): the committed state holds, for exactly the ids
\* that ever synced, the modified value of their latest successful sync; and
\* at the loop head, so after a failed attempt too, the state in memory does.
C5_FingerprintInvariant ==
    /\ pc \in {"done", "idle"} => FingerprintsMatch(file.state)
    /\ pc = "loop" => FingerprintsMatch(sync_state)

\* A committed state whose entry survived a failed attempt with another
\* modified value.
C5_Witness ==
    /\ pc = "done"
    /\ \E k \in 1..Len(outcome_log) :
         /\ outcome_log[k] \in FailureKinds
         /\ documents[k].id \in DOMAIN Entries(file.state)
         /\ Entries(file.state)[documents[k].id].modified < documents[k].modified
         /\ \A j \in 1..Len(documents) : documents[j].id = documents[k].id => j = k

\* C6 as claimed: no pair (id, modified value) is indexed twice.
C6_AtMostOnce ==
    \A id \in DocIds : \A m \in 1..MaxModified : index_count[<<id, m>>] <= 1

\* C6 (at-most-once ingestion), amended: a pair (id, modified value) is
\* indexed at most once as long as no record of that id without a modified
\* value has been indexed.
C6_AtMostOnceWithModified ==
    \A id \in DocIds :
        index_count[<<id, 0>>] = 0 =>
            \A m \in 1..MaxModified : index_count[<<id, m>>] <= 1

\* A record indexed by an earlier invocation is supplied again and skipped.
C6_Witness ==
    /\ AfterDocument
    /\ now > 1
    /\ outcome_log[idx - 1] = "skipped"
    /\ LET d == documents[idx - 1] IN
       /\ d.id # NoId
       /\ d.modified > 0
       /\ index_count[<<d.id, d.modified>>] = 1
       /\ index_count[<<d.id, 0>>] = 0

\* C8 (commit protocol): one load before the loop, no write during the loop,
\* one write after the last outcome, and the written state has last_sync set.
C8_CommitProtocol ==
    /\ pc \in {"loop", "process", "upsert", "record"}
         => n_loads = 1 /\ n_saves = 0
    /\ pc \in {"dump", "done"}
         => /\ n_loads = 1
            /\ n_saves = 1
            /\ Len(outcome_log) = Len(documents)
            /\ idx = Len(documents) + 1
    /\ pc = "done"
         => /\ result.status = "returned"
            /\ file.complete
            /\ file.state.last_sync = now
            /\ file.state.last_sync # 0

\* An invocation in which every document failed has committed.
C8_Witness ==
    /\ pc = "done"
    /\ Len(documents) = MaxDocs
    /\ result.failed_count = Len(documents)
    /\ n_saves = 1

\* C10 (failure list per batch): the committed failed_documents are the
\* failures of this invocation, in the order of their documents.
C10_FailureListPerBatch ==
    pc = "done" =>
        LET saved == file.state.failed_documents IN
        /\ Len(saved) = Len(FailedPositions)
        /\ \A j \in 1..Len(saved) :
             /\ saved[j].id = documents[FailedPositions[j]].id
             /\ saved[j].name = documents[FailedPositions[j]].name
             /\ saved[j].error # ""

\* An invocation without failure has replaced a non-empty failure list.
C10_Witness ==
    /\ pc = "done"
    /\ entry_file.state.failed_documents # <<>>
    /\ file.state.failed_documents = <<>>
    /\ result.synced_count > 0


WellFormed(d) == d.id # NoId /\ SupportedType(d) /\ d.modified # 0

\* The invocation replays the list of an invocation that ended without failure.
ReplayOfCleanSync ==
    /\ rerun
    /\ entry_file.exists
    /\ entry_file.state.failed_documents = <<>>
    /\ \A k \in 1..Len(documents) : WellFormed(documents[k])

\* C1 (idempotence): when a list of records that all have an id, a supported
\* extension and a modified value has synced without failure and is synced
\* again unchanged, the second report has synced_count 0 and every document
\* is skipped.
C1_Idempotence ==
    (pc = "done" /\ ReplayOfCleanSync) =>
        /\ result.synced_count = 0
        /\ result.failed_count = 0
        /\ \A k \in 1..Len(outcome_log) : outcome_log[k] = "skipped"

\* Two documents indexed by the first invocation are skipped by the second.
C1_Witness ==
    /\ pc = "done"
    /\ ReplayOfCleanSync
    /\ Len(documents) = 2
    /\ DistinctIds(documents)
    /\ outcome_log = <<"skipped", "skipped">>
    /\ \A k \in 1..2 : documents[k].id \in DOMAIN Entries(file.state)
    /\ result.synced_count = 0

\* The document the loop has just skipped, or is attempting.
SkippedNow == AfterDocument /\ outcome_log[idx - 1] = "skipped"

AttemptedNow == pc \in {"process", "upsert", "record"}

\* C3 as claimed: skipped exactly when the type is unsupported, or an entry
\* exists and the modified value is not above its fingerprint.
SkipRuleClaimed(d, state) ==
    \/ ~SupportedType(d)
    \/ HasEntry(d, state) /\ ~(d.modified > Entries(state)[d.id].modified)

C3_SkipRuleClaimed ==
    /\ SkippedNow => SkipRuleClaimed(documents[idx - 1], sync_state)
    /\ AttemptedNow => ~SkipRuleClaimed(documents[idx], sync_state)

\* C3 (eligibility), amended: skipped exactly when the id is missing, or the
\* type is unsupported, or an entry exists, both the modified value and the
\* fingerprint are present, and the modified value is not above the
\* fingerprint.
SkipRule(d, state) ==
    \/ d.id = NoId
    \/ ~SupportedType(d)
    \/ /\ HasEntry(d, state)
       /\ d.modified # 0
       /\ Entries(state)[d.id].modified # 0
       /\ ~(d.modified > Entries(state)[d.id].modified)

C3_SkipRule ==
    /\ SkippedNow => SkipRule(documents[idx - 1], sync_state)
    /\ AttemptedNow => ~SkipRule(documents[idx], sync_state)

\* A record without modified value is attempted although its id has an entry.
C3_Witness ==
    /\ AttemptedNow
    /\ HasEntry(documents[idx], sync_state)
    /\ documents[idx].modified = 0
    /\ Entries(sync_state)[documents[idx].id].modified # 0

InLoop == pc \in {"loop", "process", "upsert", "record"}

\* C7 (deferred commit): while the loop runs the state file is the one the
\* invocation started with, and it still is after a crash inside the loop.
C7_DeferredCommit ==
    (InLoop \/ (pc = "idle" /\ crash_pc \in {"loop", "process", "upsert", "record"}))
        => file = entry_file

\* A crash after a document of the batch had synced: the state file has no
\* trace of it.
C7_Witness ==
    /\ pc = "idle"
    /\ crash_pc = "loop"
    /\ file = entry_file
    /\ file.exists
    /\ \E id \in DOMAIN last_success :
         \/ id \notin DOMAIN Entries(file.state)
         \/ Entries(file.state)[id].modified # last_success[id]

\* C9 (atomic commit) as claimed: whenever the state file exists it holds a
\* complete state.
C9_AtomicCommit == file.exists => file.complete

\* Ineligible as the claims use the word: the type is not supported, or the
\* id is already synced and the record's modified value is not newer than the
\* fingerprint of its entry (both values being there to compare).
Ineligible(d, state) ==
    \/ ~SupportedType(d)
    \/ /\ HasEntry(d, state)
       /\ d.modified # 0
       /\ Entries(state)[d.id].modified # 0
       /\ d.modified <= Entries(state)[d.id].modified

AtIneligible ==
    pc = "loop" /\ idx <= Len(documents) /\ Ineligible(documents[idx], sync_state)

\* C11 (ineligible documents are not attempted): when the loop stands at an
\* ineligible document, its next step passes to the following document
\* without a download, leaves both counters, the failure list and every
\* entry of the sync state as they are, and indexes nothing.
C11_IneligibleNotAttempted ==
    [][AtIneligible =>
         /\ pc' = "loop"
         /\ idx' = idx + 1
         /\ outcome_log' = Append(outcome_log, "skipped")
         /\ UNCHANGED <<temp_file_path, synced_count, failed_count, failed_docs,
                        sync_state, index_count, file>>]_vars

\* The second document of a batch, already synced and not newer, has been
\* passed over after the first one was indexed.
C11_Witness ==
    /\ AfterDocument
    /\ idx = 3
    /\ outcome_log = <<"indexed", "skipped">>
    /\ SupportedType(documents[2])
    /\ Ineligible(documents[2], sync_state)
    /\ documents[2].id # documents[1].id
    /\ synced_count = 1
    /\ failed_docs = <<>>

NumberOfFailures == Cardinality({k \in 1..Len(outcome_log) : IsFailedAt(k)})

\* C12 (per-document errors are contained): no exception leaves
\* sync_documents because of a document; every failed download, processing or
\* upsert has added its FailureEntry, and the invocation ends with a report
\* that counts them.
C12_ErrorsContained ==
    /\ result.status # "raised"
    /\ (AfterDocument /\ IsFailedAt(idx - 1)) =>
          /\ failed_docs # <<>>
          /\ failed_docs[Len(failed_docs)].id = documents[idx - 1].id
          /\ failed_docs[Len(failed_docs)].error # ""
    /\ InLoop => failed_count = Len(failed_docs)
    /\ pc = "loop" => Len(failed_docs) = NumberOfFailures
    /\ pc = "done" =>
          /\ result.status = "returned"
          /\ result.failed_count = NumberOfFailures
          /\ Len(result.failed_documents) = NumberOfFailures

\* The remote client raised for the first document and the knowledge base
\* rejected the second; the report has both.
C12_Witness ==
    /\ pc = "done"
    /\ outcome_log = <<"download_failed", "upsert_failed">>
    /\ result.status = "returned"
    /\ result.failed_count = 2
    /\ result.failed_documents[1].error = "Error syncing document"
    /\ result.failed_documents[2].error = "Failed to add to knowledge base"

\* C13 (invocation-level errors propagate) as claimed: a failed search never
\* comes back from discover_documents as a list, and an invocation whose
\* listing or final write failed never ends with a normal report.
C13_InvocationErrorsPropagate ==
    /\ discovered.search \in {"request_failed", "raise"}
         => discovered.status = "raised"
    /\ (pc \in {"done", "idle"} /\ fault # "none")
         => result.status \in {"raised", "error_report"}

\* C14 (resumability after a failed commit) as claimed: the invocation that
\* gets the documents of a batch whose final write failed enters its loop and
\* skips none of the documents that batch had indexed.
C14_ResumableAfterFailedCommit ==
    (/\ rerun
     /\ lost_documents.at + 1 = now
     /\ DistinctIds(lost_documents.documents)
     /\ \E k \in 1..Len(lost_documents.log) : lost_documents.log[k] = "indexed")
        => /\ result.status # "raised"
           /\ \A k \in 1..Len(outcome_log) :
                lost_documents.log[k] = "indexed" => outcome_log[k] # "skipped"

\* The chunks the store holds for document d under chunk number c.
StoredChunks(d, c) ==
    {k \in DOMAIN store : store[k].netdocuments_id = d /\ store[k].chunk_id = c}

\* C15 (idempotent upsert by chunk identity) as claimed: whatever was synced,
\* and however often, the store holds at most one chunk per document and
\* chunk number.
C15_OneChunkPerIndex ==
    \A d \in DocIds : \A c \in 0..MaxText : Cardinality(StoredChunks(d, c)) <= 1

\* The ids the first invocation has synced, and the entry of an id in a state.
MainSynced ==
    {documents[k].id : k \in {j \in 1..Len(outcome_log) : outcome_log[j] = "indexed"}}

EntryOf(state, id) ==
    IF id \in DOMAIN Entries(state) THEN <<Entries(state)[id]>> ELSE <<>>

\* Both invocations have loaded the same state file and both have written.
BothWrote == pc = "done" /\ other.pc = "done" /\ entry_file = other.entry_file

\* The state file is what the invocation with state w, failures f and synced
\* ids mine wrote, and of what the invocation that synced theirs did it has
\* nothing: their entries are as they were loaded, their failures are absent.
Overwrote(w, f, mine, theirs) ==
    /\ file.state = w
    /\ file.state.failed_documents = f
    /\ \A id \in theirs \ mine :
         EntryOf(file.state, id) = EntryOf(entry_file.state, id)

\* C16 (concurrent invocations race on the final write): when two
\* invocations that loaded the same state file have both written, the file
\* is the state of one of them alone: the documents only the other one synced
\* have the entry they had when the state was loaded (none, or the older
\* fingerprint), and failed_documents are the failures of that one batch.
C16_LastWriteWins ==
    BothWrote =>
        \/ Overwrote(sync_state, failed_docs, MainSynced, other.synced)
        \/ Overwrote(other.sync_state, other.failed_docs, other.synced, MainSynced)

\* The first invocation has reported document A as synced, the second one,
\* whose only document failed, wrote last: the state file has no entry for A
\* and holds the failure of the second batch.
C16_Witness ==
    /\ BothWrote
    /\ result.status = "returned"
    /\ result.synced_count = 1
    /\ MainSynced = {"A"}
    /\ "A" \notin DOMAIN Entries(file.state)
    /\ other.failed_docs # <<>>
    /\ file.state.failed_documents = other.failed_docs
    /\ file.state # sync_state

\* Every document of the list is indexed without failure.
AllSucceed == \A k \in 1..Len(outcome_log) : outcome_log[k] \notin FailureKinds

\* A list of supported documents with distinct ids and a modified value each.
SupportedDistinct(docs) ==
    DistinctIds(docs) /\ \A k \in 1..Len(docs) : WellFormed(docs[k])

\* The positions of the list whose modified value is later than it was in
\* the first invocation.
Advanced == {k \in 1..Len(documents) :
                documents[k].modified > replay_documents[k].modified}

\* The first invocation, on an empty state, with every document indexed.
FirstCleanSync ==
    /\ pc = "done"
    /\ ~rerun
    /\ entry_file = NoFile
    /\ SupportedDistinct(documents)
    /\ AllSucceed

\* The second invocation after a first one without failure, again without failure.
SecondCleanSync ==
    /\ pc = "done"
    /\ rerun
    /\ SupportedDistinct(replay_documents)
    /\ entry_file.exists
    /\ entry_file.state.failed_documents = <<>>
    /\ AllSucceed

\* C17 (two-run scenario): from an empty state a sync of k supported
\* documents with distinct ids that all succeed reports synced_count k and
\* failed_count 0 and leaves an entry with each document's modified value; a
\* second sync of the same documents where exactly those of S have a later
\* modified value reports synced_count |S| and failed_count 0, processes
\* exactly the documents of S and leaves the entries of the others unchanged.
C17_TwoRuns ==
    /\ FirstCleanSync =>
          /\ result.synced_count = Len(documents)
          /\ result.failed_count = 0
          /\ \A k \in 1..Len(documents) :
               /\ outcome_log[k] = "indexed"
               /\ documents[k].id \in DOMAIN Entries(file.state)
               /\ Entries(file.state)[documents[k].id].modified = documents[k].modified
    /\ SecondCleanSync =>
          /\ result.synced_count = Cardinality(Advanced)
          /\ result.failed_count = 0
          /\ \A k \in 1..Len(documents) :
               IF k \in Advanced
               THEN /\ outcome_log[k] = "indexed"
                    /\ Entries(file.state)[documents[k].id].modified = documents[k].modified
               ELSE /\ outcome_log[k] = "skipped"
                    /\ EntryOf(file.state, documents[k].id) =
                           EntryOf(entry_file.state, documents[k].id)

\* A and B synced at time 1; in the second invocation only the second
\* document has a later modified value: one document synced, the entry of
\* the other as the first invocation left it.
C17_Witness ==
    /\ SecondCleanSync
    /\ Len(documents) = 2
    /\ Advanced = {2}
    /\ outcome_log = <<"skipped", "indexed">>
    /\ result.synced_count = 1
    /\ result.failed_count = 0
    /\ Entries(file.state)[documents[1].id].sync_date = 1
    /\ Entries(file.state)[documents[2].id].modified = documents[2].modified

\* process_document has returned the chunks of the text.
Chunked == chunk_documents.status = "returned"

\* The character at index i of the text lies in one of the chunks.
Covered(i) ==
    \E k \in 1..Len(chunk_documents.documents) :
        LET c == chunk_documents.documents[k].page_content
        IN c[1] <= i /\ i <= c[2]

\* C18 (chunk coverage): for a non-empty text and a splitter with overlap
\* below the chunk size, every character index of the text lies in at least
\* one chunk that process_document returns; separators and whitespace
\* between chunks included.
C18_ChunkCoverage ==
    (Chunked /\ text_splitter.chunk_overlap < text_splitter.chunk_size) =>
        \A i \in 1..Len(text) : Covered(i)

\* C19 (chunk numbering): the chunks process_document returns carry the
\* chunk indices 0, 1, ..., n-1 in output order, without gap or repeat, and
\* each of them carries the chunk count n, the number of chunks returned.
C19_ChunkNumbering ==
    Chunked =>
        LET docs == chunk_documents.documents
        IN /\ \A i \in 1..Len(docs) :
                /\ docs[i].chunk_id = i - 1
                /\ docs[i].total_chunks = Len(docs)
           /\ {docs[i].chunk_id : i \in 1..Len(docs)} = 0..(Len(docs) - 1)

\* A text split into three chunks, numbered 0, 1, 2 of 3.
C19_Witness ==
    /\ Chunked
    /\ Len(chunk_documents.documents) = 3
    /\ chunk_documents.documents[1].chunk_id = 0
    /\ chunk_documents.documents[3].chunk_id = 2
    /\ chunk_documents.documents[2].total_chunks = 3

\* A text that is empty after trimming.
Blank(t) == Strip(t, <<1, Len(t)>>) = NoSlice

\* process_document has raised on the blank text of the document at idx.
BlankRaised ==
    /\ Blank(text)
    /\ chunk_documents.status = "raised"
    /\ outcome_log # <<>>
    /\ outcome_log[Len(outcome_log)] = "process_failed"

\* C20 (empty text is an error): when the text extracted from a downloaded
\* document is empty or blank, process_document raises and returns no chunk
\* sequence; sync_document reports the failure with nothing stored and no
\* entry written, and sync_documents records a FailureEntry for the document
\* and leaves the store and the synced entries as they were.
C20_BlankTextFails ==
    [][ /\ (pc = "process" /\ Blank(text')) =>
             /\ chunk_documents' = [status |-> "raised", documents |-> <<>>]
             /\ pc' = "record"
             /\ ~outcome'.success
             /\ BlankRaised'
             /\ store' = store
             /\ sync_state' = sync_state
        /\ (pc = "record" /\ BlankRaised) =>
             /\ failed_docs' = Append(failed_docs,
                                      FailureEntry(documents[idx], outcome.error))
             /\ failed_count' = failed_count + 1
             /\ synced_count' = synced_count
             /\ store' = store
             /\ sync_state' = sync_state
      ]_vars

\* A document whose text is one space has failed: it is the last of the
\* failures, nothing is stored and it has no entry.
C20_Witness ==
    /\ AfterDocument
    /\ BlankRaised
    /\ text = <<" ">>
    /\ failed_docs # <<>>
    /\ failed_docs[Len(failed_docs)].id = documents[idx - 1].id
    /\ store = NoChunks
    /\ documents[idx - 1].id \notin DOMAIN Entries(sync_state)

\* The outcome of the document sync_document has just dealt with.
LastOutcome == IF outcome_log = <<>> THEN "" ELSE outcome_log[Len(outcome_log)]

\* The last download_document gave no file to sync_document.
NoFileReturned == downloaded.result \in {"none", "transfer_failed", "raise"}

\* C21 (download failure writes nothing): when the download of a document
\* fails (no path, or an exception), the document goes straight to Failed
\* with a non-empty error message: no text is extracted, no chunk is made,
\* the store is left as it was, and the failure entry is the only effect.
C21_DownloadFailureWritesNothing ==
    [][ /\ (pc = "loop" /\ pc' \in {"process", "upsert", "record"}
                        /\ NoFileReturned') =>
             /\ pc' = "record"
             /\ LastOutcome' = "download_failed"
             /\ ~outcome'.success
             /\ outcome'.error # ""
             /\ text' = <<>>
             /\ chunk_documents' = NoDocuments
             /\ store' = store
        /\ (pc = "record" /\ NoFileReturned) =>
             /\ failed_docs' = Append(failed_docs,
                                      FailureEntry(documents[idx], outcome.error))
             /\ failed_docs'[Len(failed_docs')].error # ""
             /\ store' = store
             /\ sync_state' = sync_state
      ]_vars

\* A document whose chunks are in the store is synced again, the download
\* fails, and the failure is recorded with the store as it was.
C21_Witness ==
    /\ AfterDocument
    /\ NoFileReturned
    /\ LastOutcome = "download_failed"
    /\ failed_docs # <<>>
    /\ failed_docs[Len(failed_docs)].id = documents[idx - 1].id
    /\ store # NoChunks
    /\ text = <<>>
    /\ chunk_documents = NoDocuments

\* C22 (temporary file cleanup): when sync_document returns for a document
\* whose download returned a local file, that file does not exist any more,
\* whether the document was indexed, processing raised, or the store
\* rejected the batch.
C22_TempFileRemoved ==
    (pc = "record" /\ downloaded.result = "path") =>
        /\ LastOutcome \in {"indexed", "process_failed", "upsert_failed"}
        /\ downloaded.save_path \notin temp_files
        /\ ~temp_file_path

\* Processing raised on a downloaded file, and the file is gone.
C22_Witness ==
    /\ pc = "record"
    /\ downloaded.result = "path"
    /\ LastOutcome = "process_failed"
    /\ downloaded.save_path \in TempNames
    /\ downloaded.save_path \notin temp_files

\* C30 (no temporary file survives a failed download): when
\* download_document has made its temporary file and the transfer then
\* fails, no file made for that document is left once sync_document has
\* returned its failure.
C30_NoOrphanTempFile ==
    (pc = "record" /\ NoFileReturned) => downloaded.save_path \notin temp_files

\* The documents of the batch that were attempted so far.
Attempted == {k \in 1..Len(outcome_log) : outcome_log[k] # "skipped"}

\* C23 (one outcome, one effect): an attempted document ends Indexed or
\* Failed, never both. Indexed adds one to synced_count and puts the
\* document's modified value into the entry of its id, with no failure
\* entry; Failed adds one to failed_count and appends one failure entry, with
\* synced_documents untouched. In the report failed_count is the length of
\* failed_documents, synced_count + failed_count is the number of documents
\* attempted, and success says failed_count = 0.
C23_OneOutcomeOneEffect ==
    [][ /\ pc = "record" =>
             /\ outcome.success <=> LastOutcome = "indexed"
             /\ ~outcome.success <=> LastOutcome \in FailureKinds
             /\ IF outcome.success
                THEN /\ synced_count' = synced_count + 1
                     /\ failed_count' = failed_count
                     /\ failed_docs' = failed_docs
                     /\ Entries(sync_state')[documents[idx].id].modified
                            = documents[idx].modified
                     /\ \A id \in DOMAIN Entries(sync_state) \ {documents[idx].id} :
                            EntryOf(sync_state', id) = EntryOf(sync_state, id)
                ELSE /\ failed_count' = failed_count + 1
                     /\ synced_count' = synced_count
                     /\ Len(failed_docs') = Len(failed_docs) + 1
                     /\ SubSeq(failed_docs', 1, Len(failed_docs)) = failed_docs
                     /\ failed_docs'[Len(failed_docs')].id = documents[idx].id
                     /\ Entries(sync_state') = Entries(sync_state)
        /\ pc' = "done" =>
             /\ result'.failed_count = Len(result'.failed_documents)
             /\ result'.synced_count + result'.failed_count = Cardinality(Attempted')
             /\ result'.success <=> result'.failed_count = 0
      ]_vars

\* A report on a batch of two attempted documents, one indexed, one failed.
C23_Witness ==
    /\ pc = "done"
    /\ Cardinality(Attempted) = 2
    /\ result.synced_count = 1
    /\ result.failed_count = 1
    /\ Len(result.failed_documents) = 1
    /\ ~result.success

\* The invocation is somewhere in its loop.
Looping == pc \in {"loop", "process", "upsert", "record"}

\* C24 (sequential in-order processing): the documents are taken one at a
\* time in the order of the list: while the document at idx is downloaded,
\* processed or stored, every document before it has its outcome, counted
\* and recorded, and none after it has one; the failure entries stand in the
\* order of their documents in the list.
C24_SequentialInOrder ==
    /\ Looping =>
          /\ Len(outcome_log) = IF pc = "record" THEN idx ELSE idx - 1
          /\ Len(outcome_log) <= Len(documents)
    /\ pc \in {"loop", "process", "upsert"} =>
          /\ synced_count + failed_count = Cardinality(Attempted)
          /\ Len(failed_docs) = Len(FailedPositions)
          /\ \A j \in 1..Len(failed_docs) :
               /\ failed_docs[j].id = documents[FailedPositions[j]].id
               /\ failed_docs[j].name = documents[FailedPositions[j]].name
    /\ pc = "done" =>
          /\ Len(result.failed_documents) = Len(FailedPositions)
          /\ \A j \in 1..Len(FailedPositions) :
               result.failed_documents[j].id = documents[FailedPositions[j]].id

\* Two documents with different ids both failed: their failure entries are
\* in the order of the list.
C24_Witness ==
    /\ pc = "done"
    /\ Len(documents) = 2
    /\ documents[1].id # documents[2].id
    /\ FailedPositions = <<1, 2>>
    /\ result.failed_documents[1].id = documents[1].id
    /\ result.failed_documents[2].id = documents[2].id

\* C25 (Indexed implies accepted by the store): a document that
\* sync_document reports as synced, and that is then counted and given an
\* entry, had its chunks accepted by the Knowledge Store, whether the engine
\* was built with a rag_pipeline or without.
C25_IndexedImpliesAccepted ==
    (pc = "record" /\ outcome.success) =>
        index_count[<<documents[idx].id, documents[idx].modified>>] > 0

\* discover_documents has just returned what a search found.
Discovering ==
    /\ discovered' # discovered
    /\ discovered'.status = "returned"
    /\ discovered'.search = "items"

\* The positions of the search result that hold a supported type.
SupportedFound(found) == {k \in 1..Len(found) : SupportedType(found[k])}

\* keep is found with exactly the positions of want left, in their order.
IsSubsequenceAt(keep, found, want) ==
    /\ Len(keep) = Cardinality(want)
    /\ \A j \in 1..Len(keep) :
         \E k \in want :
            /\ Cardinality({i \in want : i <= k}) = j
            /\ keep[j] = found[k]

\* C26 (discovery filter): when the search succeeds, discover_documents
\* returns the documents of the search result that have a supported
\* extension, all of them, in their order and nothing else; each of them
\* passes the type check of the eligibility rule; and the call neither reads
\* nor writes the sync state.
C26_DiscoveryFilter ==
    [][ Discovering =>
          /\ IsSubsequenceAt(discovered'.documents, discovered'.found,
                             SupportedFound(discovered'.found))
          /\ \A k \in 1..Len(discovered'.documents) :
               LET d == discovered'.documents[k]
               IN /\ is_document_supported(d)
                  /\ d.id # NoId => should_sync_document(d, DefaultState)
          /\ file' = file
          /\ sync_state' = sync_state
          /\ n_loads' = n_loads
          /\ n_saves' = n_saves
      ]_vars

\* A search found an executable between two supported documents, and the
\* two are returned in their order.
C26_Witness ==
    /\ discovered.status = "returned"
    /\ discovered.search = "items"
    /\ Len(discovered.found) = 3
    /\ discovered.found[1].name = "b.txt"
    /\ discovered.found[2].name = "c.exe"
    /\ discovered.found[3].name = "a.PDF"
    /\ discovered.documents = <<discovered.found[1], discovered.found[3]>>

\* Positions j < k of the batch hold the same id with the same modified
\* value, and both have been dealt with.
SameRecordAt(j, k) ==
    /\ j < k
    /\ k <= Len(outcome_log)
    /\ documents[j].id # NoId
    /\ documents[j].id = documents[k].id
    /\ documents[j].modified = documents[k].modified
    /\ documents[j].modified # 0

\* An occurrence of the id of position j between j and k was indexed.
IndexedBetween(j, k) ==
    \E i \in (j + 1)..(k - 1) :
        documents[i].id = documents[j].id /\ outcome_log[i] = "indexed"

\* An occurrence of that id without a modified value was indexed in between.
ResetBetween(j, k) ==
    \E i \in (j + 1)..(k - 1) :
        /\ documents[i].id = documents[j].id
        /\ documents[i].modified = 0
        /\ outcome_log[i] = "indexed"

\* A failed occurrence is followed by an attempt of the next one.
FailedThenAttempted(j, k) ==
    (outcome_log[j] \in FailureKinds /\ ~IndexedBetween(j, k))
        => outcome_log[k] # "skipped"

\* C27 as claimed: of two occurrences of an id with the same modified value
\* in one batch at most one is indexed, and after a failed occurrence the
\* next one is attempted.
C27_DuplicatesIndexedOnce ==
    \A j, k \in 1..Len(outcome_log) :
        SameRecordAt(j, k) =>
            /\ ~(outcome_log[j] = "indexed" /\ outcome_log[k] = "indexed")
            /\ FailedThenAttempted(j, k)

\* C27 (duplicate ids inside one batch), amended: of two occurrences of an id
\* with the same modified value in one batch at most one is indexed, as long
\* as no occurrence of that id without a modified value is indexed between
\* them; after a failed occurrence the later one is attempted, unless one in
\* between was indexed, and every failure has its own failure entry.
C27_DuplicatesIndexedOnceUnlessReset ==
    /\ \A j, k \in 1..Len(outcome_log) :
         SameRecordAt(j, k) =>
            /\ ~ResetBetween(j, k)
                  => ~(outcome_log[j] = "indexed" /\ outcome_log[k] = "indexed")
            /\ FailedThenAttempted(j, k)
    /\ pc = "done" =>
         /\ result.failed_count = Len(FailedPositions)
         /\ Len(result.failed_documents) = Len(FailedPositions)
         /\ result.synced_count =
               Cardinality({k \in 1..Len(outcome_log) : outcome_log[k] = "indexed"})

\* A@1 fails twice and is indexed at its third occurrence: two failure
\* entries, one document synced.
C27_Witness ==
    /\ pc = "done"
    /\ Len(documents) = 3
    /\ SameRecordAt(1, 2)
    /\ SameRecordAt(2, 3)
    /\ outcome_log[1] \in FailureKinds
    /\ outcome_log[2] \in FailureKinds
    /\ outcome_log[3] = "indexed"
    /\ result.failed_count = 2
    /\ result.synced_count = 1

\* Every entry of state before is in state after, with a fingerprint that is
\* not older.
EntriesKept(before, after) ==
    \A id \in DOMAIN Entries(before) :
        /\ id \in DOMAIN Entries(after)
        /\ Entries(after)[id].modified >= Entries(before)[id].modified

\* The step ends an invocation, with its report or with an exception.
InvocationEnds == pc \notin {"idle", "done"} /\ pc' \in {"idle", "done"}

\* C28 (monotone sync state): when an invocation on records that all carry a
\* modified value is over, the state file holds every id it held when the
\* invocation started, each with a fingerprint that has not decreased.
C28_MonotoneSyncState ==
    [][ (InvocationEnds /\ \A k \in 1..Len(documents) : documents[k].modified # 0)
            => EntriesKept(entry_file.state, file'.state) ]_vars

\* The ids of the failure entries of a state.
FailedIds(state) ==
    {state.failed_documents[j].id : j \in 1..Len(state.failed_documents)}

\* Position k holds a supported document, the only one of its id in the
\* list, that failed in the previous invocation, which got the same list.
FailedLastTime(k) ==
    /\ rerun
    /\ entry_file.exists
    /\ k <= Len(outcome_log)
    /\ documents[k].id # NoId
    /\ SupportedType(documents[k])
    /\ \A j \in 1..Len(documents) : documents[j].id = documents[k].id => j = k
    /\ documents[k].id \in FailedIds(entry_file.state)

\* C29 (failed documents are retried): a supported document that failed in
\* one invocation is eligible in the next invocation that gets it: it is
\* attempted, never skipped, and when its download, processing and upsert
\* succeed it is indexed, counted and given the entry with its modified value.
C29_FailedAreRetried ==
    \A k \in 1..Len(outcome_log) :
        FailedLastTime(k) =>
            /\ outcome_log[k] # "skipped"
            /\ (pc = "done" /\ outcome_log[k] \notin FailureKinds) =>
                 /\ outcome_log[k] = "indexed"
                 /\ result.synced_count >= 1
                 /\ documents[k].id \in DOMAIN Entries(file.state)
                 /\ Entries(file.state)[documents[k].id].modified
                        = documents[k].modified
                 /\ documents[k].id \notin FailedIds(file.state)

\* A document that had been synced with an older modified value failed in the
\* first invocation and is indexed by the second.
C29_Witness ==
    /\ pc = "done"
    /\ FailedLastTime(1)
    /\ outcome_log[1] = "indexed"
    /\ documents[1].id \in DOMAIN Entries(entry_file.state)
    /\ Entries(entry_file.state)[documents[1].id].modified = 1
    /\ documents[1].modified = 2
    /\ Entries(file.state)[documents[1].id].modified = 2

====
